---- MODULE Spec2Model ----
(***************************************************************************)
(* A model of PS2Comrade/clanker: the tenant configuration store           *)
(* (src/src/config_store.py), the provider chain and its dispatcher        *)
(* (src/src/providers.py) and the pipeline orchestrator (src/src/app.py).  *)
(*                                                                         *)
(* Text is a sequence of one-character strings, so that str(), int(),      *)
(* upper() and strip() are computed rather than assumed.                   *)
(***************************************************************************)
EXTENDS Integers, Sequences, FiniteSets, TLC

(* ------------------------------ bounds -------------------------------- *)
MaxTenant == 2
MaxChannel == 2
NumTasks == 2
MaxOps == 3
MaxFaults == 2

Tenants == 1..MaxTenant
ChannelIds == 1..MaxChannel
Tasks == 1..NumTasks

(* The two ConfigStore instances of a behaviour: the process's shared      *)
(* instance (app.py:61) and a second instance constructed on the same path.*)
Stores == {"cfg", "fresh"}

(* ------------------------------ text ---------------------------------- *)
Digits == <<"0", "1", "2", "3", "4", "5", "6", "7", "8", "9">>
LowerLetters == <<"a", "b", "c", "d", "e", "f", "g", "h", "i", "j", "k", "l", "m",
                  "n", "o", "p", "q", "r", "s", "t", "u", "v", "w", "x", "y", "z">>
UpperLetters == <<"A", "B", "C", "D", "E", "F", "G", "H", "I", "J", "K", "L", "M",
                  "N", "O", "P", "Q", "R", "S", "T", "U", "V", "W", "X", "Y", "Z">>
Whitespace == {" ", "\t", "\n"}

RECURSIVE StrOfInt(_)
(* str(n) of a non-negative integer: its decimal numeral. *)
StrOfInt(n) ==
  IF n < 10 THEN <<Digits[n + 1]>>
  ELSE Append(StrOfInt(n \div 10), Digits[(n % 10) + 1])

DigitValue(c) == CHOOSE d \in 0..9 : Digits[d + 1] = c

RECURSIVE IntOfStr(_)
(* int(s) of a decimal numeral. *)
IntOfStr(s) ==
  IF Len(s) = 1 THEN DigitValue(s[1])
  ELSE 10 * IntOfStr(SubSeq(s, 1, Len(s) - 1)) + DigitValue(s[Len(s)])

(* One letter outside ASCII, in its two cases, each a single character. *)
EAcuteLower == "U+00E9"
EAcuteUpper == "U+00C9"
NonAscii == {EAcuteLower, EAcuteUpper}

UpperChar(c) ==
  IF \E i \in DOMAIN LowerLetters : LowerLetters[i] = c
  THEN UpperLetters[CHOOSE i \in DOMAIN LowerLetters : LowerLetters[i] = c]
  ELSE IF c = EAcuteLower THEN EAcuteUpper ELSE c

(* s.upper() *)
Upper(s) == [i \in DOMAIN s |-> UpperChar(s[i])]

RECURSIVE LStrip(_)
LStrip(s) ==
  IF s # <<>> /\ s[1] \in Whitespace THEN LStrip(Tail(s)) ELSE s

RECURSIVE RStrip(_)
RStrip(s) ==
  IF s # <<>> /\ s[Len(s)] \in Whitespace THEN RStrip(SubSeq(s, 1, Len(s) - 1)) ELSE s

(* s.strip() *)
Strip(s) == RStrip(LStrip(s))

Range(seq) == {seq[i] : i \in DOMAIN seq}

(* x in list *)
Contains(seq, x) == \E i \in DOMAIN seq : seq[i] = x

(* [y for y in arr if y != x] *)
Without(arr, x) == SelectSeq(arr, LAMBDA y : y # x)

LowerChar(c) ==
  IF \E i \in DOMAIN UpperLetters : UpperLetters[i] = c
  THEN LowerLetters[CHOOSE i \in DOMAIN UpperLetters : UpperLetters[i] = c]
  ELSE IF c = EAcuteUpper THEN EAcuteLower ELSE c

(* s.lower() *)
Lower(s) == [i \in DOMAIN s |-> LowerChar(s[i])]

RECURSIVE RStripChar(_, _)
(* s.rstrip(c) *)
RStripChar(s, c) ==
  IF s # <<>> /\ s[Len(s)] = c THEN RStripChar(SubSeq(s, 1, Len(s) - 1), c) ELSE s

(* The names of the four provider variants (providers.py:31, 68, 118, 153). *)
DEEPL == <<"d", "e", "e", "p", "l">>
LIBRE == <<"l", "i", "b", "r", "e">>
LINGVA == <<"l", "i", "n", "g", "v", "a">>
SIMPLY == <<"s", "i", "m", "p", "l", "y">>

(* ------------------------------ dicts --------------------------------- *)
EmptyDict == [k \in {} |-> <<>>]

DictGet(d, k, dflt) == IF k \in DOMAIN d THEN d[k] ELSE dflt

DictSet(d, k, v) == [x \in (DOMAIN d) \cup {k} |-> IF x = k THEN v ELSE d[x]]

(* d.setdefault(k, v) *)
SetDefault(d, k, v) == IF k \in DOMAIN d THEN d ELSE DictSet(d, k, v)

(* The three top-level keys of the document (config_store.py:26-30). *)
Keys == {"guilds", "blacklist", "settings"}

(* None: no text is this value, whose one element is not a character. *)
None == <<"None">>


(* ====================== the tenant config store ======================= *)
VARIABLES
  defaults,     \* the three inner dicts of the module-level _DEFAULT
  own,          \* per store and key: the dict object json.load created for it
  ref,          \* per store and key: whether data[key] is _DEFAULT[key] or its own dict
  file,         \* the content of the destination path
  tmp,          \* per task: the temporary file its save() created
  lock,         \* the holder of _LOCK, 0 when free
  pc,           \* per task: its position in the operation it runs
  opStore,      \* per task: the store instance its operation runs on
  raised,       \* the operation that ended last left as an exception
  nOps,         \* operations started
  nFaults,      \* file-system faults injected
  fileAtStart,  \* per task: the destination's content when its save() took the lock
  dumped,       \* per task: the document its save() serialised, as tenant sets
  lastSaved,    \* the document of the last write of the destination that succeeded
  freshSync,    \* the second instance loaded the document lastSaved describes
  expCh,        \* per tenant: the channels whose latest add/remove was an add
  expBl,        \* per tenant: the codes whose latest add/remove was an add
  batchFault,   \* a save step faulted since the tasks were last all idle
  batchMuts,    \* mutating operations started since the tasks were last all idle
  batchLoad     \* a load() started since the tasks were last all idle

storeVars == <<defaults, own, ref, file, tmp, lock, pc, opStore, raised,
               nOps, nFaults, fileAtStart, dumped, lastSaved, freshSync, expCh,
               expBl, batchFault, batchMuts, batchLoad>>

VARIABLES
  limits,       \* the tasks that run, and how many operations, faults and requests
  env,          \* the configuration app.py reads from the environment at import
  plPc,         \* the position of the translate_pipeline call in progress
  req,          \* its arguments: guild_id, text, force, apply_blacklist
  chain,        \* the provider chain build_provider_chain returned
  idx,          \* translate_via_chain: the provider of the chain it is at
  inflight,     \* provider requests sent to a back-end and not yet answered
  calls,        \* the names of the providers whose translate was invoked, in order
  results,      \* what each of these invocations returned
  lastResp,     \* the back-end response the last invocation got
  dispatched,   \* what translate_via_chain returned
  plResult,     \* what translate_pipeline returned
  nReq          \* translate_pipeline calls started

pipeVars == <<env, plPc, req, chain, idx, inflight, calls, results, lastResp,
              dispatched, plResult, nReq>>

VARIABLES
  lastCall,     \* the settings command that ran last: its arguments, the record before
  shown,        \* what the last `show` command passed to masked_settings and got back
  clsText,      \* the text given to skip_reason
  verdict,      \* per value of force: what skip_reason returned for clsText
  normed        \* normalize(clsText), then normalize of that

VARIABLES
  cfgArg,       \* the dict given to build_provider_chain
  chainOut,     \* what build_provider_chain returned for cfgArg
  libPc,        \* the position of a LibreTranslateProvider.translate call
  libDet,       \* what the back-end answers to POST /detect
  libTx,        \* what the back-end answers to POST /translate
  libCalls,     \* the endpoints the call has posted to, in order
  detected_lang,\* its local detected_lang
  libResult     \* what the call returned

cmdVars == <<lastCall, shown>>

fnVars == <<cfgArg, chainOut, libPc, libDet, libTx, libCalls, detected_lang, libResult>>

clsVars == <<clsText, verdict, normed, fnVars>>

(* A step of the store leaves the pipeline's locals as they are, and the   *)
(* records of the settings commands and of the classifier.                 *)
PipelineUnchanged == UNCHANGED <<limits, pipeVars, cmdVars, clsVars>>

(* ------------------------- file contents ------------------------------ *)
Absent == [kind |-> "absent", doc |-> EmptyDict]
EmptyFile == [kind |-> "empty", doc |-> EmptyDict]
PartialFile == [kind |-> "partial", doc |-> EmptyDict]
DocFile(d) == [kind |-> "doc", doc |-> d]

(* A reader of the path gets a complete document. *)
Readable(f) == f.kind = "doc"

(* ------------------------- the document ------------------------------- *)
(* self.data[key]: the dict the store's key refers to. *)
DataOf(dflt, ownS, refS, key) == IF refS[key] = "default" THEN dflt[key] ELSE ownS[key]

Data(s, key) == DataOf(defaults, own[s], ref[s], key)

(* A save that writes the channel lists and the blacklists only. *)
Serialise_WithoutSettings(s) ==
  [k \in Keys |-> IF k = "settings" THEN EmptyDict ELSE Data(s, k)]

(* json.dump(self.data, f): the three dicts as they are when it runs. *)
Serialise(s) == [k \in Keys |-> Data(s, k)]

(* self._g(guild_id) *)
_g(guild_id) == StrOfInt(guild_id)

(* list_channels(guild_id), on the guilds dict d *)
list_channels(d, guild_id) ==
  LET arr == DictGet(d, _g(guild_id), <<>>)
  IN  [i \in DOMAIN arr |-> IntOfStr(arr[i])]

(* has_channel(guild_id, channel_id), on the guilds dict d *)
has_channel(d, guild_id, channel_id) ==
  Contains(DictGet(d, _g(guild_id), <<>>), StrOfInt(channel_id))

(* An add_channel that appends without looking for the entry. *)
add_channel_AlwaysAppends(d, guild_id, channel_id) ==
  LET g  == _g(guild_id)
      d1 == SetDefault(d, g, <<>>)
  IN  DictSet(d1, g, Append(d1[g], StrOfInt(channel_id)))

(* add_channel's change of the guilds dict d *)
add_channel(d, guild_id, channel_id) ==
  LET g  == _g(guild_id)
      d1 == SetDefault(d, g, <<>>)
  IN  IF Contains(d1[g], StrOfInt(channel_id)) THEN d1
      ELSE DictSet(d1, g, Append(d1[g], StrOfInt(channel_id)))

(* A remove_channel that takes the channel off every tenant's list. *)
remove_channel_EveryTenant(d, guild_id, channel_id) ==
  [g \in (DOMAIN d) \cup {_g(guild_id)} |->
     Without(DictGet(d, g, <<>>), StrOfInt(channel_id))]

(* remove_channel's change of the guilds dict d *)
remove_channel(d, guild_id, channel_id) ==
  LET g   == _g(guild_id)
      arr == DictGet(d, g, <<>>)
  IN  DictSet(d, g, Without(arr, StrOfInt(channel_id)))

(* A blacklist that keeps the caller's letter case. *)
NormCode_KeepsCase(code) == Strip(code)

(* code.upper().strip() *)
NormCode(code) == Strip(Upper(code))

(* list_blacklist(guild_id), on the blacklist dict d *)
list_blacklist(d, guild_id) ==
  LET arr == DictGet(d, _g(guild_id), <<>>)
  IN  [i \in DOMAIN arr |-> Upper(arr[i])]

(* add_blacklist's change of the blacklist dict d, for a code that is not blank *)
add_blacklist(d, guild_id, code) ==
  LET c  == NormCode(code)
      g  == _g(guild_id)
      d1 == SetDefault(d, g, <<>>)
  IN  IF Contains(d1[g], c) THEN d1 ELSE DictSet(d1, g, Append(d1[g], c))

(* remove_blacklist's change of the blacklist dict d *)
remove_blacklist(d, guild_id, code) ==
  LET c   == NormCode(code)
      g   == _g(guild_id)
      arr == DictGet(d, g, <<>>)
  IN  DictSet(d, g, Without(arr, c))

(* An update_settings that replaces the tenant's record by the fields given. *)
update_settings_Replaces(d, guild_id, kwargs) ==
  LET set == {k \in DOMAIN kwargs : kwargs[k] # <<"None">>}
  IN  [x \in (DOMAIN d) \cup {StrOfInt(guild_id)} |->
         IF x = StrOfInt(guild_id) THEN [k \in set |-> kwargs[k]] ELSE d[x]]

(* get_settings' change of the settings dict d: the record is created lazily *)
get_settings(d, guild_id) == SetDefault(d, _g(guild_id), EmptyDict)

(* update_settings' change of the settings dict d: None values are skipped *)
update_settings(d, guild_id, kwargs) ==
  LET g    == _g(guild_id)
      d1   == get_settings(d, guild_id)
      st   == d1[g]
      set  == {k \in DOMAIN kwargs : kwargs[k] # None}
      st2  == [k \in (DOMAIN st) \cup set |-> IF k \in set THEN kwargs[k] ELSE st[k]]
  IN  DictSet(d1, g, st2)

(* A document as the store's readers see it: per tenant the set of channels, *)
(* the set of blacklist codes and the settings record.                       *)
AbsDocOf(guilds, blacklist, settings) ==
  [channels  |-> [g \in Tenants |-> Range(list_channels(guilds, g))],
   blacklist |-> [g \in Tenants |-> Range(list_blacklist(blacklist, g))],
   settings  |-> [g \in Tenants |-> DictGet(settings, _g(g), EmptyDict)]]

AbsDoc(s) == AbsDocOf(Data(s, "guilds"), Data(s, "blacklist"), Data(s, "settings"))

EmptyAbs == AbsDocOf(EmptyDict, EmptyDict, EmptyDict)


(* ----------------------------- inputs --------------------------------- *)
(* Language codes as callers pass them: two spellings of one code, one of  *)
(* them with a leading blank, and a blank code.                            *)
CodeInputs == {<<"f", "r">>, <<" ", "F", "R">>, <<" ">>}

(* Keyword arguments of update_settings. *)
KwargsInputs ==
  {("provider" :> LINGVA),
   ("libre_url" :> <<"u">>),
   ("provider" :> None) @@ ("libre_url" :> <<>>)}

(* What the destination holds before the process starts: nothing, or a     *)
(* document with one of the three top-level keys.                          *)
InitFiles ==
  {Absent, DocFile(("guilds" :> (<<"1">> :> << <<"1">> >>)))}

(* The entry a language code denotes: upper-cased, without surrounding blanks. *)
CodeKey(code) == Strip(Upper(code))

(* ----------------------------- Init ----------------------------------- *)
StoreInit(files) ==
  /\ defaults = [k \in Keys |-> EmptyDict]
  /\ own = [s \in Stores |-> [k \in Keys |-> EmptyDict]]
  /\ ref = [s \in Stores |-> [k \in Keys |-> "default"]]
  /\ file \in files
  /\ tmp = [t \in Tasks |-> Absent]
  /\ lock = 0
  /\ pc = [t \in Tasks |-> "idle"]
  /\ opStore = [t \in Tasks |-> "cfg"]
  /\ raised = FALSE
  /\ nOps = 0
  /\ nFaults = 0
  /\ fileAtStart = [t \in Tasks |-> Absent]
  /\ dumped = [t \in Tasks |-> EmptyAbs]
  /\ lastSaved = [valid |-> FALSE, abs |-> EmptyAbs]
  /\ freshSync = FALSE
  /\ expCh = [g \in Tenants |-> {}]
  /\ expBl = [g \in Tenants |-> {}]
  /\ batchFault = FALSE
  /\ batchMuts = 0
  /\ batchLoad = FALSE

(* ------------------------- mutating operations ------------------------ *)
AllIdle == \A t \in Tasks : pc[t] = "idle"

(* An assignment into the dict self.data[key] refers to: the module-level  *)
(* default when the store still shares it (dict(_DEFAULT) is shallow).     *)
WriteData(s, key, v) ==
  /\ defaults' = IF ref[s][key] = "default" THEN [defaults EXCEPT ![key] = v] ELSE defaults
  /\ own' = IF ref[s][key] = "default" THEN own ELSE [own EXCEPT ![s][key] = v]
  /\ UNCHANGED ref

(* The part every mutating operation shares: it runs on the shared store   *)
(* and ends in `await self.save()`, which starts by waiting for the lock.  *)
MutationStart(t) ==
  /\ pc[t] = "idle"
  /\ t \in limits.tasks /\ nOps < limits.ops
  /\ nOps' = nOps + 1
  /\ pc' = [pc EXCEPT ![t] = "save_wait"]
  /\ opStore' = [opStore EXCEPT ![t] = "cfg"]
  /\ batchMuts' = IF AllIdle THEN 1 ELSE batchMuts + 1
  /\ batchFault' = IF AllIdle THEN FALSE ELSE batchFault
  /\ batchLoad' = IF AllIdle THEN FALSE ELSE batchLoad
  /\ raised' = FALSE
  /\ UNCHANGED <<file, tmp, lock, nFaults, fileAtStart, dumped, lastSaved, freshSync>>

BeginMutation(t) == MutationStart(t) /\ PipelineUnchanged

AddChannel(t, g, c) ==
  /\ BeginMutation(t)
  /\ WriteData("cfg", "guilds", add_channel(Data("cfg", "guilds"), g, c))
  /\ expCh' = [expCh EXCEPT ![g] = @ \cup {c}]
  /\ UNCHANGED expBl

RemoveChannel(t, g, c) ==
  /\ BeginMutation(t)
  /\ WriteData("cfg", "guilds", remove_channel(Data("cfg", "guilds"), g, c))
  /\ expCh' = [expCh EXCEPT ![g] = @ \ {c}]
  /\ UNCHANGED expBl

(* add_blacklist returns at once, without a save, when the code is blank. *)
AddBlacklist(t, g, code) ==
  /\ expBl' = [expBl EXCEPT ![g] = @ \cup {CodeKey(code)}]
  /\ UNCHANGED expCh
  /\ IF NormCode(code) = <<>>
     THEN /\ pc[t] = "idle"
          /\ t \in limits.tasks /\ nOps < limits.ops
          /\ nOps' = nOps + 1
          /\ batchMuts' = IF AllIdle THEN 0 ELSE batchMuts
          /\ batchFault' = IF AllIdle THEN FALSE ELSE batchFault
          /\ batchLoad' = IF AllIdle THEN FALSE ELSE batchLoad
          /\ raised' = FALSE
          /\ UNCHANGED <<defaults, own, ref, file, tmp, lock, pc, opStore, nFaults,
                         fileAtStart, dumped, lastSaved, freshSync>>
          /\ PipelineUnchanged
     ELSE /\ BeginMutation(t)
          /\ WriteData("cfg", "blacklist", add_blacklist(Data("cfg", "blacklist"), g, code))

RemoveBlacklist(t, g, code) ==
  /\ BeginMutation(t)
  /\ WriteData("cfg", "blacklist", remove_blacklist(Data("cfg", "blacklist"), g, code))
  /\ expBl' = [expBl EXCEPT ![g] = @ \ {CodeKey(code)}]
  /\ UNCHANGED expCh

UpdateSettings(t, g, kwargs) ==
  /\ BeginMutation(t)
  /\ WriteData("cfg", "settings", update_settings(Data("cfg", "settings"), g, kwargs))
  /\ UNCHANGED <<expCh, expBl>>


(* ------------------------------ load ---------------------------------- *)
(* A save and a load that do not wait for the lock. *)
LockFree_NotAwaited == TRUE

(* `async with _LOCK`: the lock is taken only when no task holds it. *)
LockFree == lock = 0

(* After load(): which keys refer to a dict of the document read. A key     *)
(* the document lacks gets _DEFAULT[key] itself (config_store.py:48-50);    *)
(* with no readable document the store gets dict(_DEFAULT).                 *)
LoadedRef(f) ==
  [k \in Keys |-> IF Readable(f) /\ k \in DOMAIN f.doc THEN "own" ELSE "default"]

(* A load that reads the blacklists of the document as empty. *)
LoadedOwn_DropsBlacklist(f) ==
  [k \in Keys |-> IF Readable(f) /\ k \in DOMAIN f.doc /\ k # "blacklist"
                  THEN f.doc[k] ELSE EmptyDict]

LoadedOwn(f) ==
  [k \in Keys |-> IF Readable(f) /\ k \in DOMAIN f.doc THEN f.doc[k] ELSE EmptyDict]

Load(t, s) ==
  /\ PipelineUnchanged
  /\ pc[t] = "idle"
  /\ t \in limits.tasks /\ nOps < limits.ops
  /\ nOps' = nOps + 1
  /\ pc' = [pc EXCEPT ![t] = "load_wait"]
  /\ opStore' = [opStore EXCEPT ![t] = s]
  /\ batchLoad' = TRUE
  /\ batchMuts' = IF AllIdle THEN 0 ELSE batchMuts
  /\ batchFault' = IF AllIdle THEN FALSE ELSE batchFault
  /\ raised' = FALSE
  /\ UNCHANGED <<defaults, own, ref, file, tmp, lock, nFaults, fileAtStart, dumped,
                 lastSaved, freshSync, expCh, expBl>>

LoadAcquire(t) ==
  /\ PipelineUnchanged
  /\ pc[t] = "load_wait"
  /\ LockFree
  /\ lock' = t
  /\ pc' = [pc EXCEPT ![t] = "load_body"]
  /\ UNCHANGED <<defaults, own, ref, file, tmp, opStore, raised, nOps,
                 nFaults, fileAtStart, dumped, lastSaved, freshSync, expCh, expBl,
                 batchFault, batchMuts, batchLoad>>

(* The body of load(), then the release of the lock. *)
LoadBody(t) ==
  LET s    == opStore[t]
      refS == LoadedRef(file)
      ownS == LoadedOwn(file)
      abs  == AbsDocOf(DataOf(defaults, ownS, refS, "guilds"),
                       DataOf(defaults, ownS, refS, "blacklist"),
                       DataOf(defaults, ownS, refS, "settings"))
  IN  /\ pc[t] = "load_body"
      /\ PipelineUnchanged
      /\ ref' = [ref EXCEPT ![s] = refS]
      /\ own' = [own EXCEPT ![s] = ownS]
      /\ lock' = 0
      /\ pc' = [pc EXCEPT ![t] = "idle"]
      /\ opStore' = [opStore EXCEPT ![t] = "cfg"]
      /\ expCh' = IF s = "cfg" THEN abs.channels ELSE expCh
      /\ expBl' = IF s = "cfg" THEN abs.blacklist ELSE expBl
      /\ freshSync' = IF s = "fresh" THEN Readable(file) /\ lastSaved.valid ELSE freshSync
      /\ UNCHANGED <<defaults, file, tmp, raised, nOps, nFaults, fileAtStart,
                     dumped, lastSaved, batchFault, batchMuts, batchLoad>>

(* ------------------------------ save ---------------------------------- *)
(* A file-system step faults: at most MaxFaults times in a behaviour. *)
Fault ==
  /\ nFaults < limits.faults
  /\ nFaults' = nFaults + 1
  /\ batchFault' = TRUE

NoFault == UNCHANGED <<nFaults, batchFault>>

SaveAcquire(t) ==
  /\ PipelineUnchanged
  /\ pc[t] = "save_wait"
  /\ LockFree
  /\ lock' = t
  /\ pc' = [pc EXCEPT ![t] = "save_mkstemp"]
  /\ fileAtStart' = [fileAtStart EXCEPT ![t] = file]
  /\ UNCHANGED <<defaults, own, ref, file, tmp, opStore, raised, nOps,
                 nFaults, dumped, lastSaved, freshSync, expCh, expBl, batchFault,
                 batchMuts, batchLoad>>

(* os.makedirs and tempfile.mkstemp run before the try: a fault leaves     *)
(* save() as an exception, and `async with` releases the lock.             *)
SaveMkstemp(t) ==
  /\ PipelineUnchanged
  /\ pc[t] = "save_mkstemp"
  /\ \/ /\ NoFault
        /\ tmp' = [tmp EXCEPT ![t] = EmptyFile]
        /\ pc' = [pc EXCEPT ![t] = "save_dump"]
        /\ UNCHANGED <<lock, raised, fileAtStart>>
     \/ /\ Fault
        /\ raised' = TRUE
        /\ lock' = 0
        /\ pc' = [pc EXCEPT ![t] = "idle"]
        /\ fileAtStart' = [fileAtStart EXCEPT ![t] = Absent]
        /\ UNCHANGED tmp
  /\ UNCHANGED <<defaults, own, ref, file, opStore, nOps, dumped, lastSaved,
                 freshSync, expCh, expBl, batchMuts, batchLoad>>

(* os.fdopen and json.dump into the temporary file. *)
SaveDump(t) ==
  /\ PipelineUnchanged
  /\ pc[t] = "save_dump"
  /\ \/ /\ NoFault
        /\ tmp' = [tmp EXCEPT ![t] = DocFile(Serialise(opStore[t]))]
        /\ dumped' = [dumped EXCEPT ![t] = AbsDoc(opStore[t])]
        /\ pc' = [pc EXCEPT ![t] = "save_replace"]
     \/ /\ Fault
        /\ \E f \in {EmptyFile, PartialFile} : tmp' = [tmp EXCEPT ![t] = f]
        /\ pc' = [pc EXCEPT ![t] = "fallback_open"]
        /\ UNCHANGED dumped
  /\ UNCHANGED <<defaults, own, ref, file, lock, opStore, raised, nOps,
                 fileAtStart, lastSaved, freshSync, expCh, expBl, batchMuts, batchLoad>>

(* os.replace(tmp_path, self.path): atomic. *)
SaveReplace(t) ==
  /\ PipelineUnchanged
  /\ pc[t] = "save_replace"
  /\ \/ /\ NoFault
        /\ file' = tmp[t]
        /\ tmp' = [tmp EXCEPT ![t] = Absent]
        /\ lastSaved' = [valid |-> TRUE, abs |-> dumped[t]]
        /\ freshSync' = FALSE
        /\ pc' = [pc EXCEPT ![t] = "cleanup_ok"]
     \/ /\ Fault
        /\ pc' = [pc EXCEPT ![t] = "fallback_open"]
        /\ UNCHANGED <<file, tmp, lastSaved, freshSync>>
  /\ UNCHANGED <<defaults, own, ref, lock, opStore, raised, nOps, fileAtStart,
                 dumped, expCh, expBl, batchMuts, batchLoad>>

(* The fallback's open(self.path, "w"): it truncates the destination. *)
FallbackOpen(t) ==
  /\ PipelineUnchanged
  /\ pc[t] = "fallback_open"
  /\ \/ /\ NoFault
        /\ file' = EmptyFile
        /\ lastSaved' = [valid |-> FALSE, abs |-> EmptyAbs]
        /\ freshSync' = FALSE
        /\ pc' = [pc EXCEPT ![t] = "fallback_dump"]
     \/ /\ Fault
        /\ pc' = [pc EXCEPT ![t] = "cleanup_failed"]
        /\ UNCHANGED <<file, lastSaved, freshSync>>
  /\ UNCHANGED <<defaults, own, ref, tmp, lock, opStore, raised, nOps,
                 fileAtStart, dumped, expCh, expBl, batchMuts, batchLoad>>

(* The fallback's json.dump into the destination itself. *)
FallbackDump(t) ==
  /\ PipelineUnchanged
  /\ pc[t] = "fallback_dump"
  /\ \/ /\ NoFault
        /\ file' = DocFile(Serialise(opStore[t]))
        /\ lastSaved' = [valid |-> TRUE, abs |-> AbsDoc(opStore[t])]
        /\ pc' = [pc EXCEPT ![t] = "cleanup_fb"]
     \/ /\ Fault
        /\ \E f \in {EmptyFile, PartialFile} : file' = f
        /\ pc' = [pc EXCEPT ![t] = "cleanup_failed"]
        /\ UNCHANGED lastSaved
  /\ UNCHANGED <<defaults, own, ref, tmp, lock, opStore, raised, nOps,
                 fileAtStart, dumped, freshSync, expCh, expBl, batchMuts, batchLoad>>

InCleanup(t) == pc[t] \in {"cleanup_ok", "cleanup_fb", "cleanup_failed"}

(* A save() whose finally block does not remove the temporary file. *)
SaveCleanup_SkipsRemoval(t) ==
  /\ InCleanup(t)
  /\ PipelineUnchanged
  /\ NoFault
  /\ lock' = 0
  /\ pc' = [pc EXCEPT ![t] = "idle"]
  /\ fileAtStart' = [fileAtStart EXCEPT ![t] = Absent]
  /\ dumped' = [dumped EXCEPT ![t] = EmptyAbs]
  /\ UNCHANGED <<defaults, own, ref, file, tmp, opStore, raised, nOps, lastSaved,
                 freshSync, expCh, expBl, batchMuts, batchLoad>>

(* finally: remove the temporary file if it exists, any fault of the       *)
(* removal swallowed; then the lock is released and save() returns.        *)
SaveCleanup(t) ==
  /\ InCleanup(t)
  /\ PipelineUnchanged
  /\ \/ /\ NoFault
        /\ tmp' = [tmp EXCEPT ![t] = Absent]
     \/ /\ tmp[t] # Absent
        /\ Fault
        /\ UNCHANGED tmp
  /\ lock' = 0
  /\ pc' = [pc EXCEPT ![t] = "idle"]
  /\ fileAtStart' = [fileAtStart EXCEPT ![t] = Absent]
  /\ dumped' = [dumped EXCEPT ![t] = EmptyAbs]
  /\ UNCHANGED <<defaults, own, ref, file, opStore, raised, nOps, lastSaved, freshSync,
                 expCh, expBl, batchMuts, batchLoad>>

(* ======================= the text classifier ========================== *)
DigitSet == Range(Digits)
LowerSet == Range(LowerLetters)
AlphaSet == LowerSet \cup Range(UpperLetters) \cup NonAscii

(* c.isalpha() *)
IsAlpha(c) == c \in AlphaSet

(* A pattern is a sequence of items: a character class repeated min to max *)
(* times, max = -1 for no limit.                                           *)
Item(cls, min, max) == [cls |-> cls, min |-> min, max |-> max]
One(c) == Item({c}, 1, 1)
Spaces == Item(Whitespace, 0, -1)

RECURSIVE FullMatch(_, _)
(* pattern.fullmatch(s) *)
FullMatch(pattern, s) ==
  IF pattern = <<>> THEN s = <<>>
  ELSE LET it == Head(pattern)
           hi == IF it.max < 0 \/ it.max > Len(s) THEN Len(s) ELSE it.max
       IN  \E n \in it.min..hi :
             /\ \A i \in 1..n : s[i] \in it.cls
             /\ FullMatch(Tail(pattern), SubSeq(s, n + 1, Len(s)))

(* R_SCORE, R_NUMBER, R_TIME, R_DATE, R_MIXED_NUM: an optional group is    *)
(* two patterns, the back-reference of R_DATE one pattern per separator.   *)
R_SCORE ==
  {<<Spaces, Item(DigitSet, 1, 4), Spaces, One("/"), Spaces, Item(DigitSet, 1, 4), Spaces>>}

R_NUMBER ==
  {<<Spaces, Item({"+", "-"}, 0, 1), Item(DigitSet, 1, -1), Spaces, Item({"%"}, 0, 1),
     Spaces>>,
   <<Spaces, Item({"+", "-"}, 0, 1), Item(DigitSet, 1, -1), Item({".", ","}, 1, 1),
     Item(DigitSet, 1, -1), Spaces, Item({"%"}, 0, 1), Spaces>>}

R_TIME ==
  {<<Spaces, Item(DigitSet, 1, 2), One(":"), Item(DigitSet, 2, 2), Spaces>>,
   <<Spaces, Item(DigitSet, 1, 2), One(":"), Item(DigitSet, 2, 2), One(":"),
     Item(DigitSet, 2, 2), Spaces>>}

R_DATE ==
  {<<Spaces, Item(DigitSet, 1, 4), One(sep), Item(DigitSet, 1, 2), One(sep),
     Item(DigitSet, 1, 4), Spaces>> : sep \in {"/", "-", "."}}

R_MIXED_NUM ==
  {<<Spaces, Item(DigitSet \cup {"-", "+", "(", ")", "[", "]"} \cup Whitespace, 5, -1),
     Spaces>>}

(* A looks_numeric_like that knows the five patterns only. *)
looks_numeric_like_PatternsOnly(t) ==
  IF t = <<>> THEN TRUE
  ELSE \E r \in R_SCORE \cup R_NUMBER \cup R_TIME \cup R_DATE \cup R_MIXED_NUM :
         FullMatch(r, Strip(t))

looks_numeric_like(t) ==
  IF t = <<>> THEN TRUE
  ELSE LET tt == Strip(t)
       IN  \/ \A i \in DOMAIN tt : ~IsAlpha(tt[i])
           \/ \E r \in R_SCORE \cup R_NUMBER \cup R_TIME \cup R_DATE \cup R_MIXED_NUM :
                FullMatch(r, tt)

(* A has_non_ascii_letter that finds no letter. *)
has_non_ascii_letter_Never(s) == FALSE

has_non_ascii_letter(s) == \E i \in DOMAIN s : s[i] \in NonAscii /\ IsAlpha(s[i])

(* The maximal runs of characters of cls in s, as pairs <<first, last>>. *)
Runs(s, cls) ==
  {r \in (DOMAIN s) \X (DOMAIN s) :
     /\ r[1] <= r[2]
     /\ \A k \in r[1]..r[2] : s[k] \in cls
     /\ (r[1] = 1 \/ s[r[1] - 1] \notin cls)
     /\ (r[2] = Len(s) \/ s[r[2] + 1] \notin cls)}

(* len(re.findall(r"\b\w+\b", s)) *)
word_count(s) == Cardinality(Runs(s, AlphaSet \cup DigitSet \cup {"_"}))

RECURSIVE CollapseSpaces(_)
(* re.sub(r"\s+", " ", s) *)
CollapseSpaces(s) ==
  IF s = <<>> THEN <<>>
  ELSE IF s[1] \in Whitespace
       THEN <<" ">> \o CollapseSpaces(LStrip(s))
       ELSE <<s[1]>> \o CollapseSpaces(Tail(s))

(* A normalisation that replaces each pair of blanks by one space. *)
RECURSIVE CollapsePairs(_)
CollapsePairs(s) ==
  IF Len(s) < 2 THEN s
  ELSE IF s[1] \in Whitespace /\ s[2] \in Whitespace
       THEN <<" ">> \o CollapsePairs(SubSeq(s, 3, Len(s)))
       ELSE <<s[1]>> \o CollapsePairs(Tail(s))

normalize_CollapsesPairs(s) == Lower(Strip(CollapsePairs(s)))

(* A normalisation that keeps the letter case. *)
normalize_KeepsCase(s) == Strip(CollapseSpaces(s))

normalize(s) == Lower(Strip(CollapseSpaces(s)))

ascii_only(s) == \A i \in DOMAIN s : s[i] \notin NonAscii

(* Configuration read from the environment at import (app.py:38-49), at    *)
(* its defaults; the stop-word list is the head of the default list.       *)
AUTO_MIN_WORDS == 2
ROMAN_HINDI_MIN_MATCHES == 2
ROMAN_HINDI_STOPWORDS == <<<<"k", "u", "c", "h">>, <<"b", "h", "i">>, <<"a", "p", "n", "e">>, <<"a", "p", "n", "a">>, <<"a", "p", "n", "i">>>>

is_roman_hindi(s, SKIP_ROMAN_HINDI) ==
  IF ~SKIP_ROMAN_HINDI THEN FALSE
  ELSE LET t    == Lower(s)
           toks == {SubSeq(t, r[1], r[2]) : r \in Runs(t, LowerSet)}
           hits == Cardinality({i \in DOMAIN ROMAN_HINDI_STOPWORDS :
                                  ROMAN_HINDI_STOPWORDS[i] \in toks})
       IN  IF Strip(t) = <<>> \/ ~ascii_only(t) THEN FALSE
           ELSE hits >= ROMAN_HINDI_MIN_MATCHES

(* A skip_reason that looks at the length before it looks for a blank text. *)
skip_reason_LengthFirst(text, force, MAX_INPUT_CHARS, IGNORE_NUMERIC_LIKE, SKIP_ROMAN_HINDI) ==
  IF Len(text) > MAX_INPUT_CHARS THEN "too_long"
  ELSE IF Strip(text) = <<>> THEN "blank"
  ELSE IF IGNORE_NUMERIC_LIKE /\ looks_numeric_like(text) THEN "numeric_like"
  ELSE IF ~force /\ is_roman_hindi(text, SKIP_ROMAN_HINDI) THEN "roman_hindi"
  ELSE IF ~force /\ word_count(text) < AUTO_MIN_WORDS /\ ~has_non_ascii_letter(text)
       THEN "low_signal"
  ELSE "eligible"

(* skip_reason(text, force=force), under the length limit and the two      *)
(* filter switches.                                                        *)
skip_reason(text, force, MAX_INPUT_CHARS, IGNORE_NUMERIC_LIKE, SKIP_ROMAN_HINDI) ==
  IF Strip(text) = <<>> THEN "blank"
  ELSE IF Len(text) > MAX_INPUT_CHARS THEN "too_long"
  ELSE IF IGNORE_NUMERIC_LIKE /\ looks_numeric_like(text) THEN "numeric_like"
  ELSE IF ~force /\ is_roman_hindi(text, SKIP_ROMAN_HINDI) THEN "roman_hindi"
  ELSE IF ~force /\ word_count(text) < AUTO_MIN_WORDS /\ ~has_non_ascii_letter(text)
       THEN "low_signal"
  ELSE "eligible"

(* ========================= the providers ============================== *)
(* `v or d`, for v a string or None *)
Or(v, d) == IF v = None \/ v = <<>> THEN d ELSE v

StartsWith(s, prefix) ==
  Len(s) >= Len(prefix) /\ SubSeq(s, 1, Len(prefix)) = prefix

(* A field the JSON object of a response does not have. A null field is None. *)
Missing == <<"Missing">>

(* data.get(key, dflt) on the parsed response, v being the field *)
JsonGet(v, dflt) == IF v = Missing THEN dflt ELSE v

(* all_map.keys(), in the order of the dict literal *)
ProviderNames == <<DEEPL, LIBRE, LINGVA, SIMPLY>>

(* is_configured() of the provider `name` constructed from cfg *)
is_configured(name, cfg) ==
  IF name = DEEPL
  THEN Strip(Or(DictGet(cfg, "deepl_api_key", None), <<>>)) # <<>>
  ELSE LET key == IF name = LIBRE THEN "libre_url"
                  ELSE IF name = LINGVA THEN "lingva_url" ELSE "simply_url"
       IN  RStripChar(Or(DictGet(cfg, key, None), <<>>), "/") # <<>>

(* A provider object: its name and what its constructor kept of cfg. *)
Provider(name, cfg) == [name |-> name, configured |-> is_configured(name, cfg)]

(* A chain of all four providers, configured or not. *)
build_provider_chain_Unfiltered(cfg) ==
  LET selected == Lower(Or(DictGet(cfg, "provider", None), DEEPL))
      order    == <<selected>> \o SelectSeq(ProviderNames, LAMBDA k : k # selected)
  IN  IF ~Contains(ProviderNames, selected)
      THEN [error |-> "KeyError", chain |-> <<>>]
      ELSE [error |-> "", chain |-> [i \in DOMAIN order |-> Provider(order[i], cfg)]]

(* A chain in the canonical order, the selected provider at its own place. *)
build_provider_chain_CanonicalOrder(cfg) ==
  LET selected == Lower(Or(DictGet(cfg, "provider", None), DEEPL))
      ch       == SelectSeq([i \in DOMAIN ProviderNames |-> Provider(ProviderNames[i], cfg)],
                            LAMBDA p : p.configured)
  IN  IF ~Contains(ProviderNames, selected)
      THEN [error |-> "KeyError", chain |-> <<>>]
      ELSE [error |-> "", chain |-> IF ch = <<>> THEN <<Provider(selected, cfg)>> ELSE ch]

(* build_provider_chain(cfg): all_map[name] raises KeyError for a selected *)
(* name that is not a key, at the first turn of the loop.                  *)
build_provider_chain(cfg) ==
  LET selected == Lower(Or(DictGet(cfg, "provider", None), DEEPL))
      order    == <<selected>> \o SelectSeq(ProviderNames, LAMBDA k : k # selected)
      ch       == SelectSeq([i \in DOMAIN order |-> Provider(order[i], cfg)],
                            LAMBDA p : p.configured)
  IN  IF ~Contains(ProviderNames, selected)
      THEN [error |-> "KeyError", chain |-> <<>>]
      ELSE [error |-> "", chain |-> IF ch = <<>> THEN <<Provider(selected, cfg)>> ELSE ch]

(* What a back-end answers: the request raises (network error, timeout,    *)
(* a body that is not JSON), or a status and the fields of the JSON body.  *)
Response(status, translation, detected) ==
  [status |-> status, translation |-> translation, detected |-> detected]

NoResponse == Response("none", Missing, Missing)

Responses ==
  {Response("exception", Missing, Missing),
   Response("non200", Missing, Missing),
   Response("ok", Missing, <<"f", "r">>),
   Response("ok", None, <<"f", "r">>),
   Response("ok", <<" ">>, <<"f", "r">>),
   Response("ok", <<"H", "i", " ", "y", "o", "u">>, <<"f", "r">>),
   Response("ok", <<"H", "i", " ", "y", "o", "u">>, <<"e", "n", "-", "U", "S">>),
   Response("ok", <<"S", "a", "l", "u", "t", " ", " ", "T", "O", "I">>, Missing)}

(* What translate returns: None, or the pair (detected, translated). *)
NoResult == [present |-> FALSE, detected |-> <<>>, translated |-> <<>>]

Result(detected, translated) ==
  [present |-> TRUE, detected |-> detected, translated |-> translated]

(* provider.translate(text, target_lang), the back-end answering resp:     *)
(* libre and lingva return the translation field as it is, deepl and       *)
(* simply put "" for a null one.                                           *)
translate(p, resp) ==
  IF ~p.configured \/ resp.status # "ok" THEN NoResult
  ELSE LET detected == Upper(Or(JsonGet(resp.detected, None), <<>>))
       IN  IF p.name \in {LIBRE, LINGVA}
           THEN Result(detected, JsonGet(resp.translation, <<>>))
           ELSE Result(detected, Or(JsonGet(resp.translation, None), <<>>))

(* ---------------- LibreTranslateProvider.translate -------------------- *)
(* What a back-end answers to one POST: the request raises (network error, *)
(* timeout, a body that is not JSON), or a status and the parsed body.     *)
Answer(status, body) == [status |-> status, body |-> body]

(* A parsed JSON body: an object with the field `value`, a list of items,  *)
(* or something else.                                                      *)
JsonObject(value) == [kind |-> "object", value |-> value, items |-> <<>>]

JsonList(items) == [kind |-> "list", value |-> Missing, items |-> items]

NoBody == [kind |-> "none", value |-> Missing, items |-> <<>>]

(* Answers to POST /detect: the request raises; a status that is not 200;  *)
(* [{"language": "fr"}]; []; an object; [{"language": null}]; [{}]; [5].   *)
DetectAnswers ==
  {Answer("exception", NoBody),
   Answer("non200", NoBody),
   Answer("ok", JsonList(<<JsonObject(<<"f", "r">>)>>)),
   Answer("ok", JsonList(<<>>)),
   Answer("ok", JsonObject(<<"f", "r">>)),
   Answer("ok", JsonList(<<JsonObject(None)>>)),
   Answer("ok", JsonList(<<JsonObject(Missing)>>)),
   Answer("ok", JsonList(<<NoBody>>))}

(* Answers to POST /translate: the request raises; a status that is not    *)
(* 200; {"translatedText": "Hi you"}; {}; {"translatedText": null}; a      *)
(* list; {"translatedText": " "}.                                          *)
TranslateAnswers ==
  {Answer("exception", NoBody),
   Answer("non200", NoBody),
   Answer("ok", JsonObject(<<"H", "i", " ", "y", "o", "u">>)),
   Answer("ok", JsonObject(Missing)),
   Answer("ok", JsonObject(None)),
   Answer("ok", JsonList(<<>>)),
   Answer("ok", JsonObject(<<" ">>))}

(* What the detect block leaves: detected_lang, and raised when an         *)
(* exception leaves the block.                                             *)
Detected(lang, escapes) == [detected_lang |-> lang, raised |-> escapes]

(* A detect block whose `except` lets the exception of the request through. *)
libre_detect_Propagates(det) ==
  IF det.status = "exception" THEN Detected(<<>>, TRUE)
  ELSE IF det.status # "ok" THEN Detected(<<>>, FALSE)
  ELSE IF det.body.kind # "list" \/ det.body.items = <<>> THEN Detected(<<>>, FALSE)
  ELSE IF det.body.items[1].kind # "object" THEN Detected(<<>>, FALSE)
  ELSE Detected(Upper(Or(JsonGet(det.body.items[1].value, None), <<>>)), FALSE)

(* providers.py:83-95: detected_lang stays "" unless the status is 200,    *)
(* the body a non-empty list and its first item an object; `except         *)
(* Exception` catches what the request, json() and get raise.              *)
libre_detect(det) ==
  IF det.status # "ok" THEN Detected(<<>>, FALSE)
  ELSE IF det.body.kind # "list" \/ det.body.items = <<>> THEN Detected(<<>>, FALSE)
  ELSE IF det.body.items[1].kind # "object" THEN Detected(<<>>, FALSE)
  ELSE Detected(Upper(Or(JsonGet(det.body.items[1].value, None), <<>>)), FALSE)

(* providers.py:97-115: None when the request raises, the status is not    *)
(* 200 or the body is not an object; otherwise the pair.                   *)
libre_translate(tx, lang) ==
  IF tx.status # "ok" \/ tx.body.kind # "object" THEN NoResult
  ELSE Result(lang, JsonGet(tx.body.value, <<>>))

(* Dicts given to build_provider_chain: the selection absent, None, empty, *)
(* one of the four or in mixed case; each key or URL empty, blank or a     *)
(* slash, or set.                                                          *)
ChainCfgs ==
  {sel @@ [deepl_api_key |-> k, libre_url |-> u, libre_api_key |-> <<>>,
           lingva_url |-> v, simply_url |-> w] :
     sel \in {EmptyDict} \cup
             {("provider" :> x) : x \in {None, <<>>, DEEPL, LIBRE, SIMPLY,
                                         <<"L", "i", "n", "g", "v", "a">>}},
     k \in {<<>>, <<" ">>, <<"k">>},
     u \in {<<>>, <<"/">>, <<"u", "/">>},
     v \in {None, <<"v">>},
     w \in {<<>>, <<"w">>}}

(* Nothing was built, no LibreTranslate call was made. *)
FnInit ==
  /\ cfgArg = EmptyDict
  /\ chainOut = [error |-> "pending", chain |-> <<>>]
  /\ libPc = "idle"
  /\ libDet = Answer("none", NoBody)
  /\ libTx = Answer("none", NoBody)
  /\ libCalls = <<>>
  /\ detected_lang = <<>>
  /\ libResult = NoResult

(* What a step of the providers leaves alone. *)
ProvidersFrame ==
  UNCHANGED <<storeVars, limits, pipeVars, cmdVars, clsText, verdict, normed, cfgArg,
              libDet, libTx>>

(* chain = build_provider_chain(cfgArg) *)
BuildChain ==
  /\ chainOut.error = "pending"
  /\ chainOut' = build_provider_chain(cfgArg)
  /\ UNCHANGED <<libPc, libCalls, detected_lang, libResult>>
  /\ ProvidersFrame

(* LibreTranslateProvider(cfgArg).translate up to the end of the detect    *)
(* block: `return None` when not configured, else POST /detect.            *)
LibreDetect ==
  LET d == libre_detect(libDet)
  IN  /\ libPc = "idle"
      /\ IF ~is_configured(LIBRE, cfgArg)
         THEN /\ libPc' = "done"
              /\ UNCHANGED <<libCalls, detected_lang, libResult>>
         ELSE /\ libCalls' = Append(libCalls, "/detect")
              /\ detected_lang' = d.detected_lang
              /\ libPc' = IF d.raised THEN "raised" ELSE "translate"
              /\ UNCHANGED libResult
      /\ UNCHANGED chainOut
      /\ ProvidersFrame

(* POST /translate, and the return. *)
LibreTranslate ==
  /\ libPc = "translate"
  /\ libCalls' = Append(libCalls, "/translate")
  /\ libResult' = libre_translate(libTx, detected_lang)
  /\ libPc' = "done"
  /\ UNCHANGED <<chainOut, detected_lang>>
  /\ ProvidersFrame

(* ========================= the pipeline =============================== *)
(* What translate_via_chain and translate_pipeline return: not yet         *)
(* anything, None, a triple, or an exception that leaves the call.         *)
Outcome(kind, provider, detected, text, error) ==
  [kind |-> kind, provider |-> provider, detected |-> detected, text |-> text,
   error |-> error]

Pending == Outcome("pending", <<>>, <<>>, <<>>, "")

ReturnedNone == Outcome("absent", <<>>, <<>>, <<>>, "")

Returned(provider, detected, text) == Outcome("value", provider, detected, text, "")

Raised(error) == Outcome("raised", <<>>, <<>>, <<>>, error)

(* The environment with no variable set (app.py:26-49). *)
EnvDefault ==
  [DEFAULT_PROVIDER    |-> DEEPL,
   DEFAULT_DEEPL_KEY   |-> <<>>,
   DEFAULT_LIBRE_URL   |-> <<>>,
   DEFAULT_LIBRE_KEY   |-> <<>>,
   DEFAULT_LINGVA_URL  |-> <<>>,
   DEFAULT_SIMPLY_URL  |-> <<>>,
   ENV_BLACKLIST       |-> {},
   MAX_INPUT_CHARS     |-> 1800,
   SHOW_SOURCE_LANG    |-> TRUE,
   IGNORE_NUMERIC_LIKE |-> TRUE,
   SKIP_ROMAN_HINDI    |-> TRUE]

(* Environments: nothing set; two back-ends; a DEFAULT_PROVIDER that names *)
(* no provider; all four back-ends with the switches off and a blacklist.  *)
EnvInputs ==
  {EnvDefault,
   [EnvDefault EXCEPT !.DEFAULT_PROVIDER = LIBRE, !.DEFAULT_LIBRE_URL = <<"u", "/">>,
                      !.DEFAULT_LINGVA_URL = <<"v">>],
   [EnvDefault EXCEPT !.DEFAULT_PROVIDER = <<"g", "o", "o", "g", "l", "e">>, !.DEFAULT_LIBRE_URL = <<"u">>],
   [EnvDefault EXCEPT !.DEFAULT_PROVIDER = SIMPLY, !.DEFAULT_DEEPL_KEY = <<"k">>,
                      !.DEFAULT_LIBRE_URL = <<"u">>, !.DEFAULT_LINGVA_URL = <<"v">>,
                      !.DEFAULT_SIMPLY_URL = <<"w">>, !.ENV_BLACKLIST = {<<"F", "R">>},
                      !.SHOW_SOURCE_LANG = FALSE, !.IGNORE_NUMERIC_LIKE = FALSE,
                      !.SKIP_ROMAN_HINDI = FALSE]}

(* Message texts: two words, a clock time, one word, stop-words. *)
TextInputs == {<<"s", "a", "l", "u", "t", " ", "t", "o", "i">>, <<"1", "2", ":", "3", "0">>, <<"s", "a", "l", "u", "t">>, <<"k", "u", "c", "h", " ", "b", "h", "i">>}

(* Documents on disk when the bot starts: none, or the settings and the    *)
(* blacklist update_settings and add_blacklist saved: tenant 1 chose       *)
(* lingva and blacklisted FR, tenant 2 gave a blank LibreTranslate URL.    *)
PipeFiles ==
  {Absent,
   DocFile([guilds    |-> EmptyDict,
            blacklist |-> (<<"1">> :> << <<"F", "R">> >>),
            settings  |-> (<<"1">> :> [provider |-> LINGVA, lingva_url |-> <<"v">>]) @@
                          (<<"2">> :> [libre_url |-> <<>>])])}

(* provider_settings before the tenant's settings are merged in *)
provider_settings ==
  [provider      |-> env.DEFAULT_PROVIDER,
   deepl_api_key |-> env.DEFAULT_DEEPL_KEY,
   libre_url     |-> env.DEFAULT_LIBRE_URL,
   libre_api_key |-> env.DEFAULT_LIBRE_KEY,
   lingva_url    |-> env.DEFAULT_LINGVA_URL,
   simply_url    |-> env.DEFAULT_SIMPLY_URL]

(* A blacklist that is the process-wide one alone. *)
guild_blacklist_EnvOnly(guild_id) == env.ENV_BLACKLIST

(* guild_blacklist(guild_id); guild_id 0 stands for None as well *)
guild_blacklist(guild_id) ==
  env.ENV_BLACKLIST \cup
    (IF guild_id # 0 THEN Range(list_blacklist(Data("cfg", "blacklist"), guild_id))
     ELSE {})

(* No settings command has run, nothing was shown or classified. *)
NoCall ==
  [op |-> "none", n |-> 0, guild_id |-> 0, kwargs |-> EmptyDict, before |-> EmptyDict,
   rejected |-> FALSE]

NoShown == [guild_id |-> 0, st |-> EmptyDict, out |-> EmptyDict]

CmdInit ==
  /\ lastCall = NoCall
  /\ shown = NoShown
  /\ clsText = <<>>
  /\ verdict = [force \in BOOLEAN |-> "pending"]
  /\ normed = <<>>
  /\ FnInit

PipelineInit ==
  /\ plPc = "idle"
  /\ req = [guild_id |-> 0, text |-> <<>>, force |-> FALSE, apply_blacklist |-> FALSE]
  /\ chain = <<>>
  /\ idx = 1
  /\ inflight = 0
  /\ calls = <<>>
  /\ results = <<>>
  /\ lastResp = NoResponse
  /\ dispatched = Pending
  /\ plResult = Pending

(* What a step of the pipeline leaves alone in the store. *)
StoreFilesUnchanged ==
  UNCHANGED <<file, tmp, lock, pc, opStore, raised, nOps, nFaults, fileAtStart,
              dumped, lastSaved, freshSync, expCh, expBl, batchFault, batchMuts,
              batchLoad, cmdVars, clsVars>>

(* A pipeline that goes on whatever the verdict. *)
Skips_Never(why) == FALSE

(* `if why:` (app.py:139): skip_reason returned a reason, not None *)
Skips(why) == why # "eligible"

(* translate_pipeline up to its first suspension: skip_reason, the merge   *)
(* of the tenant's settings (get_settings creates the record), the chain.  *)
PipelineStart(guild_id, text, force, apply_blacklist) ==
  LET why    == skip_reason(text, force, env.MAX_INPUT_CHARS, env.IGNORE_NUMERIC_LIKE,
                            env.SKIP_ROMAN_HINDI)
      d1     == get_settings(Data("cfg", "settings"), guild_id)
      merged == IF guild_id # 0 THEN d1[_g(guild_id)] @@ provider_settings
                ELSE provider_settings
      built  == build_provider_chain(merged)
  IN  /\ plPc = "idle"
      /\ nReq < limits.requests
      /\ nReq' = nReq + 1
      /\ req' = [guild_id |-> guild_id, text |-> text, force |-> force,
                 apply_blacklist |-> apply_blacklist]
      /\ idx' = 1
      /\ inflight' = 0
      /\ calls' = <<>>
      /\ results' = <<>>
      /\ lastResp' = NoResponse
      /\ dispatched' = Pending
      /\ IF Skips(why)
         THEN /\ plResult' = ReturnedNone
              /\ plPc' = "done"
              /\ chain' = <<>>
              /\ UNCHANGED <<defaults, own, ref>>
         ELSE /\ IF guild_id # 0 THEN WriteData("cfg", "settings", d1)
                 ELSE UNCHANGED <<defaults, own, ref>>
              /\ IF built.error # ""
                 THEN /\ plResult' = Raised(built.error)
                      /\ plPc' = "done"
                      /\ chain' = <<>>
                 ELSE /\ plResult' = Pending
                      /\ plPc' = "dispatch"
                      /\ chain' = built.chain
      /\ StoreFilesUnchanged
      /\ UNCHANGED <<limits, env>>

(* translate_via_chain: `await prov.translate(...)` for the next provider. *)
(* A provider that is not configured returns None without a request.       *)
TranslateCall ==
  /\ plPc = "dispatch"
  /\ idx <= Len(chain)
  /\ calls' = Append(calls, chain[idx].name)
  /\ IF chain[idx].configured
     THEN /\ inflight' = inflight + 1
          /\ plPc' = "awaiting"
          /\ UNCHANGED <<idx, results>>
     ELSE /\ results' = Append(results, translate(chain[idx], NoResponse))
          /\ idx' = idx + 1
          /\ UNCHANGED <<inflight, plPc>>
  /\ UNCHANGED <<limits, env, req, chain, lastResp, dispatched, plResult, nReq>>
  /\ UNCHANGED <<defaults, own, ref>>
  /\ StoreFilesUnchanged

(* The back-end answers; translate returns; `if res and res[1].strip()`:   *)
(* None has no strip, so a pair with a None translation raises.            *)
TranslateReturn(resp) ==
  LET p   == chain[idx]
      res == translate(p, resp)
  IN  /\ plPc = "awaiting"
      /\ inflight' = inflight - 1
      /\ results' = Append(results, res)
      /\ lastResp' = resp
      /\ IF res.present /\ res.translated = None
         THEN /\ dispatched' = Raised("AttributeError")
              /\ plResult' = Raised("AttributeError")
              /\ plPc' = "done"
              /\ UNCHANGED idx
         ELSE IF res.present /\ Strip(res.translated) # <<>>
         THEN /\ dispatched' = Returned(p.name, res.detected, res.translated)
              /\ plPc' = "filter"
              /\ UNCHANGED <<idx, plResult>>
         ELSE /\ idx' = idx + 1
              /\ plPc' = "dispatch"
              /\ UNCHANGED <<dispatched, plResult>>
      /\ UNCHANGED <<limits, env, req, chain, calls, nReq>>
      /\ UNCHANGED <<defaults, own, ref>>
      /\ StoreFilesUnchanged

(* The providers whose request is made through httpx.AsyncClient(timeout=  *)
(* 10 or 12) (providers.py:81, 137, 171); DeepLProvider.translate awaits   *)
(* run_in_executor with no timeout (providers.py:51-59).                   *)
HasTimeout(name) == name \in {LIBRE, LINGVA, SIMPLY}

(* The back-end has not answered and the client's timeout expires: the     *)
(* request raises, translate returns None.                                 *)
Timeout ==
  /\ plPc = "awaiting"
  /\ HasTimeout(chain[idx].name)
  /\ TranslateReturn(Response("exception", Missing, Missing))

(* translate_via_chain: the loop ends, `return None`. *)
ChainEnd ==
  /\ plPc = "dispatch"
  /\ idx > Len(chain)
  /\ dispatched' = ReturnedNone
  /\ plPc' = "filter"
  /\ UNCHANGED <<limits, env, req, chain, idx, inflight, calls, results, lastResp,
                 plResult, nReq>>
  /\ UNCHANGED <<defaults, own, ref>>
  /\ StoreFilesUnchanged

TranslatedFrom == <<"T", "r", "a", "n", "s", "l", "a", "t", "e", "d", " ", "f", "r", "o", "m", " ">>

Via == <<" ", "v", "i", "a", " ">>

(* translate_pipeline after translate_via_chain returned: the blacklist,   *)
(* English, no-change, then the header.                                    *)
PipelineReturn ==
  LET detected == dispatched.detected
      header   == IF env.SHOW_SOURCE_LANG /\ detected # <<>>
                  THEN TranslatedFrom \o Upper(detected) \o Via \o dispatched.provider
                       \o <<":", "\n">>
                  ELSE <<>>
  IN  /\ plPc = "filter"
      /\ plPc' = "done"
      /\ plResult' =
           IF dispatched.kind = "absent" THEN ReturnedNone
           ELSE IF /\ req.apply_blacklist
                   /\ detected # <<>>
                   /\ Upper(detected) \in guild_blacklist(req.guild_id)
                THEN ReturnedNone
           ELSE IF StartsWith(Upper(detected), <<"E", "N">>) THEN ReturnedNone
           ELSE IF normalize(dispatched.text) = normalize(req.text) THEN ReturnedNone
           ELSE Returned(dispatched.provider, Upper(detected), header \o dispatched.text)
      /\ UNCHANGED <<limits, env, req, chain, idx, inflight, calls, results, lastResp,
                     dispatched, nReq>>
      /\ UNCHANGED <<defaults, own, ref>>
      /\ StoreFilesUnchanged

(* The caller has the result (or the exception): the call's locals are gone. *)
PipelineExit ==
  /\ plPc = "done"
  /\ plPc' = "idle"
  /\ req' = [guild_id |-> 0, text |-> <<>>, force |-> FALSE, apply_blacklist |-> FALSE]
  /\ chain' = <<>>
  /\ idx' = 1
  /\ inflight' = 0
  /\ calls' = <<>>
  /\ results' = <<>>
  /\ lastResp' = NoResponse
  /\ dispatched' = Pending
  /\ plResult' = Pending
  /\ UNCHANGED <<limits, env, nReq>>
  /\ UNCHANGED <<defaults, own, ref>>
  /\ StoreFilesUnchanged

(* ====================== the settings commands ========================= *)
(* config_store.py:33 *)
SENSITIVE_KEYS == {"deepl_api_key", "libre_api_key"}

(* The character U+2026, one character. *)
Ellipsis == "U+2026"

(* isinstance(v, str): of the values a settings record holds, all but None *)
IsStr(v) == v # None

(* s[:n] *)
Take(s, n) == SubSeq(s, 1, IF Len(s) < n THEN Len(s) ELSE n)

(* A masking that treats every field as a secret. *)
masked_settings_MasksAll(st) ==
  [k \in DOMAIN st |->
     IF IsStr(st[k]) /\ st[k] # <<>>
     THEN Take(st[k], 4) \o <<Ellipsis>> \o StrOfInt(Len(st[k]))
     ELSE st[k]]

(* masked_settings(st): a new dict *)
masked_settings(st) ==
  [k \in DOMAIN st |->
     IF k \in SENSITIVE_KEYS /\ IsStr(st[k]) /\ st[k] # <<>>
     THEN Take(st[k], 4) \o <<Ellipsis>> \o StrOfInt(Len(st[k]))
     ELSE st[k]]

(* A validation that lets every name through. *)
ValidProvider_AcceptsAny(provider) == TRUE

(* provider in ("deepl", "libre", "lingva", "simply") *)
ValidProvider(provider) == provider \in {DEEPL, LIBRE, LINGVA, SIMPLY}

(* Provider names as a user types them: mixed case, unknown, known. *)
ProviderArgs ==
  {<<"L", "i", "n", "g", "v", "a">>, <<"g", "o", "o", "g", "l", "e">>, SIMPLY}

(* A key of 18 characters. *)
LongKey ==
  <<"s", "k", "-", "a", "b", "0", "1", "2", "3", "4", "5", "6", "7", "8", "9", "x",
    "y", "z">>

(* Keys and URLs as a user types them: blank, three characters and a       *)
(* trailing blank, eighteen characters.                                    *)
ValueArgs == {<<" ">>, <<"a", "b", "c", " ">>, LongKey}

(* The fields the set-deepl-key, set-libre-url, set-libre-key,             *)
(* set-lingva-url and set-simply-url commands write.                       *)
FieldArgs == {"deepl_api_key", "libre_url", "libre_api_key", "lingva_url", "simply_url"}

(* The document a run of the bot left: tenant 1 chose a provider and set   *)
(* a URL, tenant 2 set a key and a URL and gave a blank second key.        *)
SettingsFiles ==
  {Absent,
   DocFile([guilds    |-> EmptyDict,
            blacklist |-> EmptyDict,
            settings  |->
              (<<"1">> :> [provider |-> DEEPL, libre_url |-> <<"X">>]) @@
              (<<"2">> :> [deepl_api_key |-> LongKey, libre_api_key |-> <<>>,
                           lingva_url |-> <<"v">>])])}

(* What a command records of itself: its number among the operations, its *)
(* arguments and the settings dict as it was before.                       *)
Call(op, guild_id, kwargs, rejected) ==
  [op |-> op, n |-> nOps + 1, guild_id |-> guild_id, kwargs |-> kwargs,
   before |-> Data("cfg", "settings"), rejected |-> rejected]

(* A command that is not to save and ends in `await self.save()`. *)
CommandWithoutSave_Saves(t) ==
  /\ MutationStart(t)
  /\ UNCHANGED <<expCh, expBl>>
  /\ UNCHANGED <<limits, pipeVars, clsVars>>

(* A command that ends without `await self.save()`. *)
CommandWithoutSave(t) ==
  /\ pc[t] = "idle"
  /\ t \in limits.tasks /\ nOps < limits.ops
  /\ nOps' = nOps + 1
  /\ batchMuts' = IF AllIdle THEN 0 ELSE batchMuts
  /\ batchFault' = IF AllIdle THEN FALSE ELSE batchFault
  /\ batchLoad' = IF AllIdle THEN FALSE ELSE batchLoad
  /\ raised' = FALSE
  /\ UNCHANGED <<file, tmp, lock, pc, opStore, nFaults, fileAtStart, dumped,
                 lastSaved, freshSync, expCh, expBl>>
  /\ UNCHANGED <<limits, pipeVars, clsVars>>

(* cfg.update_settings(guild_id, **kwargs), called by the command `op` *)
SettingsCall(t, op, g, kwargs) ==
  /\ MutationStart(t)
  /\ WriteData("cfg", "settings", update_settings(Data("cfg", "settings"), g, kwargs))
  /\ lastCall' = Call(op, g, kwargs, FALSE)
  /\ UNCHANGED <<expCh, expBl, shown>>
  /\ UNCHANGED <<limits, pipeVars, clsVars>>

(* set-provider, and its prefix equivalent: the name is lower-cased and    *)
(* checked before update_settings is called.                               *)
SetProvider(t, g, provider) ==
  LET p == Lower(provider)
  IN  IF ~ValidProvider(p)
      THEN /\ CommandWithoutSave(t)
           /\ lastCall' = Call("set_provider", g, ("provider" :> p), TRUE)
           /\ UNCHANGED <<defaults, own, ref, shown>>
      ELSE SettingsCall(t, "set_provider", g, ("provider" :> p))

(* set-deepl-key and the four commands like it: the value is stripped.     *)
SetField(t, g, key, value) ==
  /\ key \in FieldArgs
  /\ SettingsCall(t, "set_field", g, (key :> Strip(value)))

(* update_settings called with several fields, some of them None. *)
UpdateSettingsCall(t, g, kwargs) ==
  /\ DOMAIN kwargs \subseteq {"provider"} \cup FieldArgs
  /\ SettingsCall(t, "update_settings", g, kwargs)

(* show: get_settings creates the tenant's record, masked_settings         *)
(* renders it.                                                             *)
ShowSettings(t, g) ==
  LET d1 == get_settings(Data("cfg", "settings"), g)
  IN  /\ CommandWithoutSave(t)
      /\ WriteData("cfg", "settings", d1)
      /\ shown' = [guild_id |-> g, st |-> d1[_g(g)], out |-> masked_settings(d1[_g(g)])]
      /\ lastCall' = Call("show", g, EmptyDict, FALSE)

(* ========================= the classifier ============================= *)
(* n times the character c *)
Repeat(c, n) == [i \in 1..n |-> c]

(* The length limit the classifier runs under (MAX_INPUT_CHARS in the      *)
(* environment).                                                           *)
MaxChars == 12

(* Texts for skip_reason and normalize: empty, blank, one character too    *)
(* long (letters, blanks, digits, stop-words), exactly the longest,        *)
(* numeric-like, stop-words in two cases, one word, one word with a letter *)
(* outside ASCII, two words, punctuation, one stop-word twice, two joined  *)
(* by an underscore, mixed case with runs of blanks.                       *)
ClassifyTexts ==
  {<<>>,
   <<" ", "\t">>,
   Repeat("a", MaxChars + 1),
   Repeat(" ", MaxChars + 1),
   Repeat("7", MaxChars + 1),
   <<"k", "u", "c", "h", " ", "b", "h", "i", " ">> \o Repeat("x", MaxChars - 8),
   <<"a", " ">> \o Repeat("b", MaxChars - 2),
   <<"1", "2", ":", "3", "0">>,
   <<" ", "4", "2", " ", "%">>,
   <<"k", "u", "c", "h", " ", "b", "h", "i">>,
   <<"K", "u", "c", "h", " ", "a", "p", "n", "a", " ", "x">>,
   <<"k", "u", "c", "h", " ", "b", "h", "i", " ", EAcuteLower>>,
   <<"s", "a", "l", "u", "t">>,
   <<EAcuteLower, "t", EAcuteLower>>,
   <<"s", "a", "l", "u", "t", " ", "t", "o", "i">>,
   <<"(", "1", ")", " ", "#", "2", "!">>,
   <<"1", "/", "2", ";", "3">>,
   <<"?", "!">>,
   <<"k", "u", "c", "h", " ", "k", "u", "c", "h">>,
   <<"k", "u", "c", "h", "_", "b", "h", "i">>,
   <<"a", "b", "c", "7">>,
   <<"B", "h", "i", " ", "\t", " ", "K", "U", "C", "H", "\n">>,
   <<" ", EAcuteUpper, "t", EAcuteLower, " ", " ", " ", "T", "O", "I", " ">>}

(* The characters of the short texts: a blank, a tab, a letter in its two  *)
(* cases, a digit, a letter outside ASCII.                                 *)
CharInputs == {" ", "\t", "a", "A", "7", EAcuteUpper}

(* The longest of the short texts. *)
MaxTextLen == 3

(* Every text of at most MaxTextLen characters of CharInputs. *)
ShortTexts == UNION {[1..n -> CharInputs] : n \in 0..MaxTextLen}

(* The two filter switches, each on or off, under the length limit. *)
ClassifyEnvs ==
  {[EnvDefault EXCEPT !.MAX_INPUT_CHARS = MaxChars, !.IGNORE_NUMERIC_LIKE = n,
                      !.SKIP_ROMAN_HINDI = r] :
     n \in BOOLEAN, r \in BOOLEAN}

(* why = skip_reason(text, force=force) *)
Classify(force) ==
  /\ verdict[force] = "pending"
  /\ verdict' = [verdict EXCEPT ![force] =
                   skip_reason(clsText, force, env.MAX_INPUT_CHARS,
                               env.IGNORE_NUMERIC_LIKE, env.SKIP_ROMAN_HINDI)]
  /\ UNCHANGED <<storeVars, limits, pipeVars, cmdVars, clsText, normed, fnVars>>

(* normalize(clsText), and normalize of what that returned *)
Normalize ==
  /\ Len(normed) < 2
  /\ normed' = Append(normed, normalize(IF normed = <<>> THEN clsText ELSE normed[1]))
  /\ UNCHANGED <<storeVars, limits, pipeVars, cmdVars, clsText, verdict, fnVars>>

(* ------------------------- the specifications ------------------------- *)
Limits(tasks, ops, faults, requests) ==
  [tasks |-> tasks, ops |-> ops, faults |-> faults, requests |-> requests]

(* The store alone, one operation at a time: an operation of the shared    *)
(* store suspends only at `async with _LOCK`, which no task holds across a *)
(* suspension, so the event loop runs each operation to its end.           *)
Init ==
  /\ StoreInit(InitFiles)
  /\ limits = Limits({1}, MaxOps, MaxFaults, 0)
  /\ env = EnvDefault
  /\ PipelineInit
  /\ nReq = 0
  /\ CmdInit

vars == <<storeVars, limits, pipeVars, cmdVars, clsVars>>

Next ==
  \E t \in Tasks :
    \/ \E g \in Tenants, c \in ChannelIds : AddChannel(t, g, c)
    \/ \E g \in Tenants, c \in ChannelIds : RemoveChannel(t, g, c)
    \/ \E g \in Tenants, code \in CodeInputs : AddBlacklist(t, g, code)
    \/ \E g \in Tenants, code \in CodeInputs : RemoveBlacklist(t, g, code)
    \/ \E g \in Tenants, kwargs \in KwargsInputs : UpdateSettings(t, g, kwargs)
    \/ \E s \in Stores : Load(t, s)
    \/ LoadAcquire(t)
    \/ LoadBody(t)
    \/ SaveAcquire(t)
    \/ SaveMkstemp(t)
    \/ SaveDump(t)
    \/ SaveReplace(t)
    \/ FallbackOpen(t)
    \/ FallbackDump(t)
    \/ SaveCleanup(t)

Spec == Init /\ [][Next]_vars

(* The steps of the tasks interleaved at every file operation: every       *)
(* schedule of the event loop and more. Operations and faults are fewer.   *)
MaxConcOps == 2
MaxConcFaults == 1

InitConc ==
  /\ StoreInit(InitFiles)
  /\ limits = Limits(Tasks, MaxConcOps, MaxConcFaults, 0)
  /\ env = EnvDefault
  /\ PipelineInit
  /\ nReq = 0
  /\ CmdInit

SpecConc == InitConc /\ [][Next]_vars

(* The pipeline: the bot starts, loads the shared store (on_ready) and     *)
(* serves translate_pipeline calls one after the other.                    *)
MaxRequests == 2

InitPipe ==
  /\ StoreInit(PipeFiles)
  /\ limits = Limits({1}, 1, 0, MaxRequests)
  /\ env \in EnvInputs
  /\ PipelineInit
  /\ nReq = 0
  /\ CmdInit

NextPipe ==
  \/ Load(1, "cfg")
  \/ LoadAcquire(1)
  \/ LoadBody(1)
  \/ \E guild_id \in 0..MaxTenant, text \in TextInputs, force \in BOOLEAN,
        apply_blacklist \in BOOLEAN :
       PipelineStart(guild_id, text, force, apply_blacklist)
  \/ TranslateCall
  \/ \E resp \in Responses : TranslateReturn(resp)
  \/ ChainEnd
  \/ PipelineReturn
  \/ PipelineExit

SpecPipe == InitPipe /\ [][NextPipe]_vars

(* The settings commands on the shared store, one after the other; every   *)
(* save succeeds.                                                          *)
MaxSettingsOps == 2

InitSettings ==
  /\ StoreInit(SettingsFiles)
  /\ limits = Limits({1}, MaxSettingsOps, 0, 0)
  /\ env = EnvDefault
  /\ PipelineInit
  /\ nReq = 0
  /\ CmdInit

NextSettings ==
  \/ \E g \in Tenants, provider \in ProviderArgs : SetProvider(1, g, provider)
  \/ \E g \in Tenants, key \in FieldArgs, value \in ValueArgs : SetField(1, g, key, value)
  \/ \E g \in Tenants, kwargs \in KwargsInputs : UpdateSettingsCall(1, g, kwargs)
  \/ \E g \in Tenants : ShowSettings(1, g)
  \/ Load(1, "cfg")
  \/ LoadAcquire(1)
  \/ LoadBody(1)
  \/ SaveAcquire(1)
  \/ SaveMkstemp(1)
  \/ SaveDump(1)
  \/ SaveReplace(1)
  \/ SaveCleanup(1)

SpecSettings == InitSettings /\ [][NextSettings]_vars

(* The classifier alone: one text, classified with and without force.     *)
InitClassify ==
  /\ StoreInit({Absent})
  /\ limits = Limits({}, 0, 0, 0)
  /\ env \in ClassifyEnvs
  /\ PipelineInit
  /\ nReq = 0
  /\ lastCall = NoCall
  /\ shown = NoShown
  /\ clsText \in ClassifyTexts \cup ShortTexts
  /\ verdict = [force \in BOOLEAN |-> "pending"]
  /\ normed = <<>>
  /\ FnInit

NextClassify ==
  \/ \E force \in BOOLEAN : Classify(force)
  \/ Normalize

SpecClassify == InitClassify /\ [][NextClassify]_vars

(* Reads, translation and configuration commands side by side: the bot    *)
(* serves one translate_pipeline call while settings commands run, their   *)
(* steps interleaved at every suspension; every save succeeds.             *)
MaxDurableOps == 2

DurableEnvs == {e \in EnvInputs : e.DEFAULT_PROVIDER \in {DEEPL, LIBRE}}

InitDurable ==
  /\ StoreInit(PipeFiles)
  /\ limits = Limits({1}, MaxDurableOps, 0, 1)
  /\ env \in DurableEnvs
  /\ PipelineInit
  /\ nReq = 0
  /\ CmdInit

NextDurable ==
  \/ \E g \in Tenants : ShowSettings(1, g)
  \/ \E g \in Tenants, provider \in ProviderArgs : SetProvider(1, g, provider)
  \/ Load(1, "cfg")
  \/ LoadAcquire(1)
  \/ LoadBody(1)
  \/ SaveAcquire(1)
  \/ SaveMkstemp(1)
  \/ SaveDump(1)
  \/ SaveReplace(1)
  \/ SaveCleanup(1)
  \/ \E guild_id \in 0..MaxTenant, text \in TextInputs :
       PipelineStart(guild_id, text, FALSE, TRUE)
  \/ TranslateCall
  \/ \E resp \in Responses : TranslateReturn(resp)
  \/ ChainEnd
  \/ PipelineReturn
  \/ PipelineExit

SpecDurable == InitDurable /\ [][NextDurable]_vars

(* One translate_pipeline call whose back-ends may answer or stay silent.  *)
(* The event loop runs a coroutine that can go on, and a request made with *)
(* a timeout ends when the timeout expires; nothing makes a back-end       *)
(* answer.                                                                 *)
HangEnvs == {e \in EnvInputs : e.DEFAULT_PROVIDER \in {LIBRE, SIMPLY}}

InitHang ==
  /\ StoreInit(PipeFiles)
  /\ limits = Limits({}, 0, 0, 1)
  /\ env \in HangEnvs
  /\ PipelineInit
  /\ nReq = 0
  /\ CmdInit

NextHang ==
  \/ \E guild_id \in 0..MaxTenant, text \in TextInputs, force \in BOOLEAN :
       PipelineStart(guild_id, text, force, TRUE)
  \/ TranslateCall
  \/ Timeout
  \/ \E resp \in Responses : TranslateReturn(resp)
  \/ ChainEnd
  \/ PipelineReturn
  \/ PipelineExit

FairHang ==
  /\ WF_vars(TranslateCall)
  /\ WF_vars(Timeout)
  /\ WF_vars(ChainEnd)

SpecHang == InitHang /\ [][NextHang]_vars /\ FairHang

(* The store with two tenants that both have channels, a blacklist and     *)
(* settings on disk: every operation keyed by a tenant, the show command   *)
(* for get_settings, a load of either instance, one operation at a time,   *)
(* and one fault of a file operation.                                      *)
MaxTenantOps == 3
MaxTenantFaults == 1

TenantFiles ==
  {Absent,
   DocFile([guilds    |-> (<<"1">> :> << <<"1">> >>) @@ (<<"2">> :> << <<"2">>, <<"1">> >>),
            blacklist |-> (<<"1">> :> << <<"F", "R">> >>) @@ (<<"2">> :> << <<"E", "T">> >>),
            settings  |-> (<<"1">> :> [provider |-> LINGVA]) @@
                          (<<"2">> :> [libre_url |-> <<"u">>])])}

InitTenants ==
  /\ StoreInit(TenantFiles)
  /\ limits = Limits({1}, MaxTenantOps, MaxTenantFaults, 0)
  /\ env = EnvDefault
  /\ PipelineInit
  /\ nReq = 0
  /\ CmdInit

NextTenants ==
  \/ \E g \in Tenants, c \in ChannelIds : AddChannel(1, g, c)
  \/ \E g \in Tenants, c \in ChannelIds : RemoveChannel(1, g, c)
  \/ \E g \in Tenants, code \in CodeInputs : AddBlacklist(1, g, code)
  \/ \E g \in Tenants, code \in CodeInputs : RemoveBlacklist(1, g, code)
  \/ \E g \in Tenants, kwargs \in KwargsInputs : UpdateSettings(1, g, kwargs)
  \/ \E g \in Tenants : ShowSettings(1, g)
  \/ \E s \in Stores : Load(1, s)
  \/ LoadAcquire(1)
  \/ LoadBody(1)
  \/ SaveAcquire(1)
  \/ SaveMkstemp(1)
  \/ SaveDump(1)
  \/ SaveReplace(1)
  \/ FallbackOpen(1)
  \/ FallbackDump(1)
  \/ SaveCleanup(1)

SpecTenants == InitTenants /\ [][NextTenants]_vars

(* The providers alone: one dict of settings, from which the chain is      *)
(* built and the LibreTranslate provider is made, and one answer of the    *)
(* back-end to each of its two requests.                                   *)
InitProviders ==
  /\ StoreInit({Absent})
  /\ limits = Limits({}, 0, 0, 0)
  /\ env = EnvDefault
  /\ PipelineInit
  /\ nReq = 0
  /\ lastCall = NoCall
  /\ shown = NoShown
  /\ clsText = <<>>
  /\ verdict = [force \in BOOLEAN |-> "pending"]
  /\ normed = <<>>
  /\ cfgArg \in ChainCfgs
  /\ chainOut = [error |-> "pending", chain |-> <<>>]
  /\ libPc = "idle"
  /\ libDet \in DetectAnswers
  /\ libTx \in TranslateAnswers
  /\ libCalls = <<>>
  /\ detected_lang = <<>>
  /\ libResult = NoResult

NextProviders ==
  \/ BuildChain
  \/ LibreDetect
  \/ LibreTranslate

SpecProviders == InitProviders /\ [][NextProviders]_vars

(* ====================== properties of the store ======================= *)
(* The positions at which a task holds _LOCK inside save(). *)
InSave(t) ==
  pc[t] \in {"save_mkstemp", "save_dump", "save_replace", "fallback_open",
             "fallback_dump", "cleanup_ok", "cleanup_fb", "cleanup_failed"}

InLoad(t) == pc[t] = "load_body"

CodeKeys == {CodeKey(code) : code \in CodeInputs}

(* C4: at every point during and after a save(), also one in which a step  *)
(* faults, the destination holds the complete document it held when the    *)
(* save began or the complete new one, never an empty or a partial one.    *)
C4_AllOrNothing ==
  /\ file.kind \in {"absent", "doc"}
  /\ \A t \in Tasks :
       InSave(t) => \/ file = fileAtStart[t]
                    \/ file = DocFile(Serialise(opStore[t]))

(* C5: when the temp-file/rename path of a save() failed and its fallback  *)
(* write failed too, the destination holds what it held when the save      *)
(* began.                                                                  *)
C5_FailedSaveKeepsDocument ==
  \A t \in Tasks : pc[t] = "cleanup_failed" => file = fileAtStart[t]

(* C6: a load() that finds no document, or an unreadable one, leaves the   *)
(* store with an empty document, whatever was done before on this or on    *)
(* another instance; a key the document lacks is loaded as an empty        *)
(* mapping.                                                                *)
C6_LoadYieldsEmpty ==
  [][\A t \in Tasks, s \in Stores :
       (pc[t] = "load_body" /\ opStore[t] = s /\ pc'[t] = "idle")
       => /\ ~Readable(file) => AbsDoc(s)' = EmptyAbs
          /\ \A k \in Keys :
               (Readable(file) /\ k \notin DOMAIN file.doc) => Data(s, k)' = EmptyDict
    ]_vars

(* C7: at most one task is inside save() or inside load() at any time, and *)
(* it is the holder of the lock.                                           *)
C7_MutualExclusion ==
  \A t, u \in Tasks :
    /\ (InSave(t) \/ InLoad(t)) => lock = t
    /\ (t # u /\ (InSave(t) \/ InLoad(t))) => ~(InSave(u) \/ InLoad(u))

(* A save is about to rename its temporary file while another task waits   *)
(* for the lock, to save or to load.                                       *)
C7_Witness ==
  \E t, u \in Tasks :
    /\ t # u
    /\ pc[t] = "save_replace"
    /\ pc[u] \in {"save_wait", "load_wait"}

(* C8: once mutating operations issued together have all completed with no *)
(* save fault, the destination holds the in-memory document, which shows   *)
(* every one of their mutations.                                           *)
C8_NoLostUpdate ==
  (AllIdle /\ batchMuts > 0 /\ ~batchFault /\ ~batchLoad)
  => /\ Readable(file)
     /\ \A k \in Keys : k \in DOMAIN file.doc /\ file.doc[k] = Data("cfg", k)
     /\ \A g \in Tenants :
          /\ Range(list_channels(file.doc["guilds"], g)) = expCh[g]
          /\ Range(list_blacklist(file.doc["blacklist"], g)) = expBl[g] \ {<<>>}

(* Two mutating operations ran together and both have completed. *)
C8_Witness ==
  /\ AllIdle
  /\ batchMuts = 2
  /\ ~batchFault
  /\ ~batchLoad
  /\ \E g \in Tenants : expCh[g] # {} /\ expBl[g] # {}

(* C9: a load() in a second instance, after a save that succeeded, yields  *)
(* the document that save serialised: for every tenant the same channels,  *)
(* the same blacklist codes and the same settings.                         *)
C9_RoundTrip == freshSync => AbsDoc("fresh") = lastSaved.abs

(* The second instance loaded a saved document with a blacklist and        *)
(* settings.                                                               *)
C9_Witness ==
  /\ freshSync
  /\ \E g \in Tenants :
       /\ lastSaved.abs.blacklist[g] # {}
       /\ lastSaved.abs.settings[g] # EmptyDict

(* C10: a channel is in the allow-list, for has_channel and for            *)
(* list_channels, exactly when its latest add/remove was an add; the same  *)
(* for the blacklist, where codes are the same entry whatever their case.  *)
C10_SetSemantics ==
  \A g \in Tenants :
    /\ \A c \in ChannelIds :
         /\ has_channel(Data("cfg", "guilds"), g, c) <=> c \in expCh[g]
         /\ c \in Range(list_channels(Data("cfg", "guilds"), g)) <=> c \in expCh[g]
    /\ \A k \in CodeKeys \ {<<>>} :
         k \in Range(list_blacklist(Data("cfg", "blacklist"), g)) <=> k \in expBl[g]

(* After three operations and no fault the store, loaded from the file,   *)
(* has channel 2 of tenant 1 and not channel 1, as has the file.           *)
C10_Witness ==
  /\ nOps = 3
  /\ nFaults = 0
  /\ AllIdle
  /\ ref["cfg"]["guilds"] = "own"
  /\ expCh[1] = {2}
  /\ ~has_channel(Data("cfg", "guilds"), 1, 1)
  /\ DictGet(Data("cfg", "guilds"), _g(1), <<>>) = << StrOfInt(2) >>
  /\ file = DocFile(Serialise("cfg"))

(* No entry occurs twice in the list. *)
NoDuplicates(arr) == \A i, j \in DOMAIN arr : arr[i] = arr[j] => i = j

(* The lists of a guilds dict and of a blacklist dict are well formed. *)
WellFormedLists(guilds, blacklist) ==
  /\ \A g \in DOMAIN guilds : NoDuplicates(guilds[g])
  /\ \A g \in DOMAIN blacklist :
       /\ NoDuplicates(blacklist[g])
       /\ \A i \in DOMAIN blacklist[g] : blacklist[g][i] = Upper(blacklist[g][i])

(* C11: in every state of the store, whatever loads, adds and removes led  *)
(* to it, no tenant's stored channel list and no tenant's stored blacklist *)
(* has an entry twice, and every stored blacklist code is upper-cased; the *)
(* same holds of a document on disk.                                       *)
C11_NoDuplicatesUpperCased ==
  /\ \A s \in Stores : WellFormedLists(Data(s, "guilds"), Data(s, "blacklist"))
  /\ Readable(file) =>
       WellFormedLists(DictGet(file.doc, "guilds", EmptyDict),
                       DictGet(file.doc, "blacklist", EmptyDict))

(* Tenant 1 has two channels and the one blacklist code FR, which was      *)
(* given in lower case or with a leading blank.                            *)
C11_Witness ==
  /\ AllIdle
  /\ Len(DictGet(Data("cfg", "guilds"), _g(1), <<>>)) = 2
  /\ DictGet(Data("cfg", "blacklist"), _g(1), <<>>) = << <<"F", "R">> >>
  /\ expBl[1] = {<<"F", "R">>}

(* ===================== properties of the settings ===================== *)
(* The record of tenant g in the settings dict d, empty when it has none. *)
SettingsOf(d, g) == DictGet(d, _g(g), EmptyDict)

(* Every provider field of the settings dict d names one of the four.     *)
StoredProvidersKnown(d) ==
  \A g \in DOMAIN d :
    "provider" \in DOMAIN d[g] => d[g]["provider"] \in {DEEPL, LIBRE, LINGVA, SIMPLY}

(* The command that ran last called update_settings, and no operation     *)
(* started since.                                                         *)
JustUpdated ==
  /\ lastCall.op \in {"set_provider", "set_field", "update_settings"}
  /\ ~lastCall.rejected
  /\ lastCall.n = nOps

(* C12: the provider field stored for a tenant, in memory and on disk, is  *)
(* always one of deepl, libre, lingva, simply: a command that carries any  *)
(* other name is rejected before anything is stored, starts no save and    *)
(* leaves the stored settings as they were.                                *)
C12_ProviderIsKnown ==
  /\ \A s \in Stores : StoredProvidersKnown(Data(s, "settings"))
  /\ Readable(file) => StoredProvidersKnown(DictGet(file.doc, "settings", EmptyDict))
  /\ (lastCall.rejected /\ lastCall.n = nOps) =>
       /\ Data("cfg", "settings") = lastCall.before
       /\ AllIdle

(* Tenant 1 chose "Lingva", stored as lingva; then "google" was rejected.  *)
C12_Witness ==
  /\ lastCall.rejected
  /\ lastCall.n = nOps
  /\ lastCall.guild_id = 1
  /\ lastCall.kwargs["provider"] = <<"g", "o", "o", "g", "l", "e">>
  /\ SettingsOf(Data("cfg", "settings"), 1) = ("provider" :> LINGVA)

(* C13: update_settings changes only the fields named in the call: every   *)
(* other field the tenant had keeps its value, no other field appears, and *)
(* the other tenants' records are as before.                               *)
C13_UpdateKeepsOtherFields ==
  JustUpdated =>
    LET g      == lastCall.guild_id
        before == SettingsOf(lastCall.before, g)
        now    == SettingsOf(Data("cfg", "settings"), g)
        named  == DOMAIN lastCall.kwargs
    IN  /\ \A k \in (DOMAIN before) \ named : k \in DOMAIN now /\ now[k] = before[k]
        /\ DOMAIN now \subseteq (DOMAIN before) \cup named
        /\ \A h \in Tenants \ {g} :
             SettingsOf(Data("cfg", "settings"), h) = SettingsOf(lastCall.before, h)

(* Stored {provider: deepl, libre_url: X}, updated with {provider: lingva}, *)
(* is {provider: lingva, libre_url: X}.                                     *)
C13_Witness ==
  /\ JustUpdated
  /\ lastCall.guild_id = 1
  /\ lastCall.kwargs = ("provider" :> LINGVA)
  /\ SettingsOf(lastCall.before, 1) = [provider |-> DEEPL, libre_url |-> <<"X">>]
  /\ SettingsOf(Data("cfg", "settings"), 1) = [provider |-> LINGVA, libre_url |-> <<"X">>]

(* C14: update_settings merges only the fields whose value is not empty: a *)
(* field passed as None, not passed, or passed as the empty string keeps   *)
(* the value the tenant had stored.                                        *)
C14_EmptyValuesIgnored ==
  JustUpdated =>
    LET g      == lastCall.guild_id
        before == SettingsOf(lastCall.before, g)
        now    == SettingsOf(Data("cfg", "settings"), g)
        kwargs == lastCall.kwargs
    IN  \A k \in DOMAIN before :
          (k \notin DOMAIN kwargs \/ kwargs[k] = None \/ kwargs[k] = <<>>)
          => k \in DOMAIN now /\ now[k] = before[k]

(* sub occurs in s as a run of consecutive characters. *)
IsSubstring(sub, s) ==
  \E i \in 0..(Len(s) - Len(sub)) : SubSeq(s, i + 1, i + Len(sub)) = sub

(* C16: for a secret of any length stored in deepl_api_key or              *)
(* libre_api_key, lengths 1 to 4 included, what masked_settings emits for  *)
(* the field does not contain the secret.                                  *)
C16_SecretNeverShownInFull ==
  \A k \in {"deepl_api_key", "libre_api_key"} \cap DOMAIN shown.st :
    (shown.st[k] # None /\ shown.st[k] # <<>>) => ~IsSubstring(shown.st[k], shown.out[k])

(* C17: masked_settings returns a mapping of the same fields: a secret     *)
(* that is not empty as its first 4 characters, an ellipsis and its length *)
(* in decimal, an empty secret empty, every other field as it is; and the  *)
(* record it was given is afterwards what it was.                          *)
C17_MaskedCopy ==
  shown.guild_id # 0 =>
    /\ DOMAIN shown.out = DOMAIN shown.st
    /\ \A k \in DOMAIN shown.st :
         LET v == shown.st[k]
         IN  IF k \in {"deepl_api_key", "libre_api_key"} /\ v # None /\ v # <<>>
             THEN LET n == IF Len(v) < 4 THEN Len(v) ELSE 4
                  IN  /\ Len(shown.out[k]) >= n + 2
                      /\ SubSeq(shown.out[k], 1, n) = SubSeq(v, 1, n)
                      /\ shown.out[k][n + 1] = "U+2026"
                      /\ IntOfStr(SubSeq(shown.out[k], n + 2, Len(shown.out[k]))) = Len(v)
             ELSE shown.out[k] = v
    /\ (lastCall.op = "show" /\ lastCall.n = nOps) =>
         SettingsOf(Data("cfg", "settings"), shown.guild_id) = shown.st

(* The record of tenant 2 was shown: its key of 18 characters as sk-a, an  *)
(* ellipsis and 18, its empty key empty, its URL as it is.                 *)
C17_Witness ==
  /\ lastCall.op = "show"
  /\ lastCall.n = nOps
  /\ shown.guild_id = 2
  /\ shown.st = [deepl_api_key |-> LongKey, libre_api_key |-> <<>>, lingva_url |-> <<"v">>]
  /\ shown.out = [deepl_api_key |-> <<"s", "k", "-", "a", "U+2026", "1", "8">>,
                  libre_api_key |-> <<>>, lingva_url |-> <<"v">>]

(* ===================== properties of the pipeline ===================== *)
(* A result the dispatcher is to accept: present, with a translated text   *)
(* that is not blank.                                                      *)
Success(res) ==
  res.present /\ res.translated # None /\ Strip(res.translated) # <<>>

(* A back-end response that is a fault: the request raised, the status is  *)
(* not 200, or the payload has no translation or a null one.               *)
IsFault(resp) ==
  resp.status \in {"exception", "non200"} \/ resp.translation \in {Missing, None}

(* The merge of the defaults and the tenant's record in which a tenant's   *)
(* field counts only when it is not empty.                                 *)
NonEmptyWins(dflt, st) ==
  [k \in (DOMAIN dflt) \cup (DOMAIN st) |->
     IF k \in DOMAIN st /\ st[k] # <<>> /\ st[k] # None THEN st[k]
     ELSE IF k \in DOMAIN dflt THEN dflt[k] ELSE st[k]]

(* C15: the chain of a request is built from the merge, field by field, of *)
(* the process-wide defaults and the tenant's stored settings, a tenant's  *)
(* field being used only when it is not empty; with no tenant, from the    *)
(* defaults alone.                                                         *)
C15_MergeNonEmptyWins ==
  [][(plPc = "idle" /\ plPc' = "dispatch") =>
       LET g  == req'.guild_id
           st == IF g # 0 THEN SettingsOf(Data("cfg", "settings"), g) ELSE EmptyDict
       IN  chain' = build_provider_chain(NonEmptyWins(provider_settings, st)).chain
    ]_vars

(* The two texts are the same up to runs of whitespace and letter case. *)
SameUpToSpaceAndCase(a, b) ==
  Lower(Strip(CollapseSpaces(a))) = Lower(Strip(CollapseSpaces(b)))

(* The process-wide blacklist together with the codes stored for tenant g. *)
EffectiveBlacklist(g) ==
  env.ENV_BLACKLIST \cup
    (IF g = 0 THEN {}
     ELSE {Upper(c) : c \in Range(DictGet(Data("cfg", "blacklist"), StrOfInt(g), <<>>))})

(* C18: after a dispatch that gave a result, translate_pipeline with       *)
(* apply_blacklist returns absent whenever the upper-cased detected        *)
(* language is in the union of the process-wide and the tenant's           *)
(* blacklist; a result detected as FR and not blacklisted, or with         *)
(* apply_blacklist off, is returned with language FR and a text that       *)
(* contains the translation (unless the translation changes nothing).      *)
C18_BlacklistFilter ==
  [][(plPc = "filter" /\ plPc' = "done" /\ dispatched.kind = "value") =>
       LET det     == Upper(dispatched.detected)
           blocked == req.apply_blacklist /\ det \in EffectiveBlacklist(req.guild_id)
       IN  /\ blocked => plResult' = ReturnedNone
           /\ (det = <<"F", "R">> /\ ~blocked
                 /\ ~SameUpToSpaceAndCase(dispatched.text, req.text)) =>
                /\ plResult'.kind = "value"
                /\ plResult'.detected = <<"F", "R">>
                /\ IsSubstring(dispatched.text, plResult'.text)
    ]_vars

(* A translation detected as FR was dropped for tenant 1, whose stored     *)
(* blacklist has FR while the process-wide blacklist is empty.             *)
C18_Witness ==
  /\ plPc = "done"
  /\ dispatched.kind = "value"
  /\ Upper(dispatched.detected) = <<"F", "R">>
  /\ ~SameUpToSpaceAndCase(dispatched.text, req.text)
  /\ req.apply_blacklist
  /\ req.guild_id = 1
  /\ env.ENV_BLACKLIST = {}
  /\ <<"F", "R">> \in EffectiveBlacklist(1)
  /\ plResult = ReturnedNone

(* C19: a result translate_pipeline returns has its detected language      *)
(* upper-cased and not starting with EN, and a translated text that differs *)
(* from the input after whitespace is collapsed and case folded; a dispatch *)
(* outcome detected as EN-US, or equal to the input up to whitespace and    *)
(* case, gives absent.                                                      *)
C19_ResultIsForeignAndChanged ==
  (plPc = "done" /\ dispatched.kind = "value") =>
    LET det  == Upper(dispatched.detected)
        noop == StartsWith(det, <<"E", "N">>)
                  \/ SameUpToSpaceAndCase(dispatched.text, req.text)
    IN  /\ noop => plResult = ReturnedNone
        /\ plResult.kind = "value" =>
             /\ plResult.detected = det
             /\ ~StartsWith(plResult.detected, <<"E", "N">>)
             /\ ~SameUpToSpaceAndCase(dispatched.text, req.text)

(* A translation detected as EN-US, different from the input, was dropped. *)
C19_Witness ==
  /\ plPc = "done"
  /\ dispatched.kind = "value"
  /\ Upper(dispatched.detected) = <<"E", "N", "-", "U", "S">>
  /\ ~SameUpToSpaceAndCase(dispatched.text, req.text)
  /\ ~req.apply_blacklist
  /\ plResult = ReturnedNone

(* ==================== properties of the classifier ==================== *)
(* The rules of the classifier, each by itself. *)
IsBlank(text) == \A i \in DOMAIN text : text[i] \in Whitespace

IsTooLong(text) == Len(text) > env.MAX_INPUT_CHARS

(* C20: skip_reason returns the verdict of the first rule that matches, in *)
(* the order blank, too long, numeric-like (when that filter is on), then, *)
(* without force only, romanized stop-words and low signal, else eligible; *)
(* with force the verdict is never one of these two, the first three rules *)
(* apply as without force, and a text eligible without force is eligible   *)
(* with force.                                                             *)
C20_FirstRuleWins ==
  /\ \A force \in BOOLEAN :
       verdict[force] # "pending" =>
         LET v       == verdict[force]
             first3  == IsBlank(clsText) \/ IsTooLong(clsText)
                          \/ (env.IGNORE_NUMERIC_LIKE /\ looks_numeric_like(clsText))
             roman   == is_roman_hindi(clsText, env.SKIP_ROMAN_HINDI)
             low     == word_count(clsText) < 2 /\ ~has_non_ascii_letter(clsText)
         IN  /\ IsBlank(clsText) => v = "blank"
             /\ (~IsBlank(clsText) /\ IsTooLong(clsText)) => v = "too_long"
             /\ (~IsBlank(clsText) /\ ~IsTooLong(clsText)) =>
                  /\ (env.IGNORE_NUMERIC_LIKE /\ looks_numeric_like(clsText))
                       => v = "numeric_like"
                  /\ (~first3 /\ ~force /\ roman) => v = "roman_hindi"
                  /\ (~first3 /\ ~force /\ ~roman /\ low) => v = "low_signal"
                  /\ (~first3 /\ (force \/ (~roman /\ ~low))) => v = "eligible"
             /\ force => v \notin {"roman_hindi", "low_signal"}
  /\ (verdict[TRUE] # "pending" /\ verdict[FALSE] # "pending") =>
       /\ verdict[FALSE] = "eligible" => verdict[TRUE] = "eligible"
       /\ verdict[FALSE] \in {"blank", "too_long", "numeric_like"}
            <=> verdict[TRUE] \in {"blank", "too_long", "numeric_like"}
       /\ verdict[TRUE] \in {"blank", "too_long", "numeric_like"}
            => verdict[TRUE] = verdict[FALSE]

(* A text of stop-words, classified both ways: skipped without force,      *)
(* eligible with force.                                                    *)
C20_Witness ==
  /\ verdict[FALSE] = "roman_hindi"
  /\ verdict[TRUE] = "eligible"
  /\ env.IGNORE_NUMERIC_LIKE

(* Punctuation marks, none of them a letter or a digit. *)
PunctuationSet == {"(", ")", "[", "]", "#", "!", "?", "/", ";", ":", "%", "+", "-", ".", ","}

(* The text is made of digits, punctuation marks and blanks alone. *)
OnlyDigitsPunctuationBlanks(text) ==
  \A i \in DOMAIN text : text[i] \in DigitSet \cup PunctuationSet \cup Whitespace

(* C21 as stated: every text of at least 5 characters made of digits,      *)
(* punctuation and whitespace alone is classified numeric_like when the    *)
(* numeric filter is on, with force and without.                           *)
C21_AnyNumericText ==
  \A force \in BOOLEAN :
    (/\ verdict[force] # "pending"
     /\ env.IGNORE_NUMERIC_LIKE
     /\ OnlyDigitsPunctuationBlanks(clsText)
     /\ Len(clsText) >= 5)
      => verdict[force] = "numeric_like"

(* C21: every text of at least 5 characters made of digits, punctuation    *)
(* and whitespace alone that is not blank and not longer than the maximum  *)
(* input length is classified numeric_like when the numeric filter is on,  *)
(* with force and without.                                                 *)
C21_NumericText ==
  \A force \in BOOLEAN :
    (/\ verdict[force] # "pending"
     /\ env.IGNORE_NUMERIC_LIKE
     /\ OnlyDigitsPunctuationBlanks(clsText)
     /\ Len(clsText) >= 5
     /\ ~IsBlank(clsText)
     /\ ~IsTooLong(clsText))
      => verdict[force] = "numeric_like"

(* "(1) #2!", which none of the five patterns matches, was classified      *)
(* numeric_like both ways.                                                 *)
C21_Witness ==
  /\ clsText = <<"(", "1", ")", " ", "#", "2", "!">>
  /\ env.IGNORE_NUMERIC_LIKE
  /\ verdict[FALSE] = "numeric_like"
  /\ verdict[TRUE] = "numeric_like"

(* A character of a word: a letter, a digit or the underscore. *)
IsWordChar(c) == c \in LowerSet \cup Range(UpperLetters) \cup NonAscii \cup DigitSet \cup {"_"}

(* The number of places of the text at which a word begins. *)
WordStarts(text) ==
  Cardinality({i \in DOMAIN text :
                 IsWordChar(text[i]) /\ (i = 1 \/ ~IsWordChar(text[i - 1]))})

(* One of the rules before the low-signal rule gives the verdict of the    *)
(* text classified without force.                                          *)
EarlierRuleFires ==
  \/ IsBlank(clsText)
  \/ IsTooLong(clsText)
  \/ (env.IGNORE_NUMERIC_LIKE /\ looks_numeric_like(clsText))
  \/ is_roman_hindi(clsText, env.SKIP_ROMAN_HINDI)

(* C22: a text of fewer words than the minimum, with no letter outside     *)
(* ASCII, on which no earlier rule fires, is classified low_signal without *)
(* force and eligible with force; a text of fewer words than the minimum   *)
(* with a letter outside ASCII is never classified low_signal.             *)
C22_LowSignalShort ==
  LET few   == WordStarts(clsText) < AUTO_MIN_WORDS
      ascii == \A i \in DOMAIN clsText : clsText[i] \notin NonAscii
  IN  /\ (verdict[FALSE] # "pending" /\ few /\ ascii /\ ~EarlierRuleFires)
           => verdict[FALSE] = "low_signal"
      /\ (verdict[TRUE] # "pending" /\ few /\ ascii /\ ~EarlierRuleFires)
           => verdict[TRUE] = "eligible"
      /\ (few /\ ~ascii) => \A force \in BOOLEAN : verdict[force] # "low_signal"

(* The one word "salut": skipped as low_signal without force, eligible     *)
(* with force.                                                             *)
C22_Witness ==
  /\ clsText = <<"s", "a", "l", "u", "t">>
  /\ verdict[FALSE] = "low_signal"
  /\ verdict[TRUE] = "eligible"

(* C27: normalize applied to what normalize returned gives the same text.  *)
C27_NormalizeIdempotent ==
  Len(normed) = 2 => normed[2] = normed[1]

(* "Bhi \t KUCH\n" was normalised to "bhi kuch", and that once more. *)
C27_Witness ==
  /\ clsText = <<"B", "h", "i", " ", "\t", " ", "K", "U", "C", "H", "\n">>
  /\ Len(normed) = 2
  /\ normed[1] = <<"b", "h", "i", " ", "k", "u", "c", "h">>

(* The number of letter runs of the lower-cased text that are stop words,  *)
(* each occurrence counting.                                               *)
StopWordTokens(text) ==
  LET t == Lower(text)
  IN  Cardinality({r \in Runs(t, LowerSet) :
                     SubSeq(t, r[1], r[2]) \in Range(ROMAN_HINDI_STOPWORDS)})

(* C28: with the stop-word filter on and without force, a text of ASCII    *)
(* characters that is not blank, not too long and not numeric-like is      *)
(* classified roman_hindi exactly when at least ROMAN_HINDI_MIN_MATCHES of *)
(* its lower-cased letter runs are stop words, each occurrence counting; a *)
(* text with a character outside ASCII is never classified roman_hindi.    *)
C28_StopWordTokens ==
  LET ascii == \A i \in DOMAIN clsText : clsText[i] \notin NonAscii
  IN  /\ (/\ verdict[FALSE] # "pending"
          /\ env.SKIP_ROMAN_HINDI
          /\ ascii
          /\ verdict[FALSE] \notin {"blank", "too_long", "numeric_like"})
           => (verdict[FALSE] = "roman_hindi"
                 <=> StopWordTokens(clsText) >= ROMAN_HINDI_MIN_MATCHES)
      /\ ~ascii => \A force \in BOOLEAN : verdict[force] # "roman_hindi"

(* ===================== properties of the providers ==================== *)
(* The place of a provider name in the canonical order. *)
CanonicalIndex(name) == CHOOSE i \in DOMAIN ProviderNames : ProviderNames[i] = name

(* The variant the dict selects: deepl when the selection is absent, None  *)
(* or empty.                                                               *)
Selected(cfg) ==
  IF "provider" \notin DOMAIN cfg \/ cfg.provider = None \/ cfg.provider = <<>>
  THEN DEEPL
  ELSE Lower(cfg.provider)

(* C24: for a dict whose selection is one of the four variants (deepl when *)
(* absent or empty), build_provider_chain returns a non-empty list without *)
(* duplicates: the configured variants, the selected one first when it is  *)
(* configured, the others in the order deepl, libre, lingva, simply; and   *)
(* the selected variant alone when none is configured.                     *)
C24_ChainOrder ==
  (chainOut.error # "pending" /\ Selected(cfgArg) \in Range(ProviderNames)) =>
    LET names      == [i \in DOMAIN chainOut.chain |-> chainOut.chain[i].name]
        configured == {n \in Range(ProviderNames) : is_configured(n, cfgArg)}
        rest       == IF Selected(cfgArg) \in configured THEN Tail(names) ELSE names
    IN  /\ chainOut.error = ""
        /\ names # <<>>
        /\ NoDuplicates(names)
        /\ configured = {} => names = <<Selected(cfgArg)>>
        /\ configured # {} =>
             /\ Range(names) = configured
             /\ Selected(cfgArg) \in configured => names[1] = Selected(cfgArg)
             /\ Selected(cfgArg) \notin Range(rest)
             /\ \A i, j \in DOMAIN rest :
                  i < j => CanonicalIndex(rest[i]) < CanonicalIndex(rest[j])

(* "Lingva" selected, deepl and simply configured besides it: the chain is *)
(* lingva, deepl, simply.                                                  *)
C24_Witness ==
  /\ DictGet(cfgArg, "provider", None) = <<"L", "i", "n", "g", "v", "a">>
  /\ [i \in DOMAIN chainOut.chain |-> chainOut.chain[i].name] = <<LINGVA, DEEPL, SIMPLY>>

(* The detect request failed: it raised, its status was not 200, or its    *)
(* body was not a list that begins with an object.                         *)
DetectFailed(det) ==
  \/ det.status # "ok"
  \/ det.body.kind # "list"
  \/ det.body.items = <<>>
  \/ det.body.items[1].kind # "object"

(* The translate request failed: it raised, its status was not 200, or its *)
(* body was not an object.                                                 *)
TranslateFailed(tx) == tx.status # "ok" \/ tx.body.kind # "object"

C23_OnlyConfiguredInvoked ==
  \A i \in DOMAIN calls : chain[i].configured

(* The settings the chain of a request for tenant g is built from. *)
MergedFor(g) ==
  IF g # 0 THEN SettingsOf(Data("cfg", "settings"), g) @@ provider_settings
  ELSE provider_settings

(* C23: a provider that is not configured is in the chain only when no     *)
(* variant is configured, and then it is the selected one alone; its       *)
(* translate, when called, sends no request and returns absent at once;    *)
(* in every other run translate is called only on configured providers.    *)
C23_UnconfiguredOnlyAsFallback ==
  [][/\ (plPc = "idle" /\ plPc' = "dispatch") =>
          LET merged     == MergedFor(req'.guild_id)
              configured == {n \in Range(ProviderNames) : is_configured(n, merged)}
          IN  \A i \in DOMAIN chain' :
                /\ chain'[i].configured <=> chain'[i].name \in configured
                /\ ~chain'[i].configured => (configured = {} /\ Len(chain') = 1)
     /\ Len(calls') > Len(calls) =>
          /\ chain[idx].configured \/ Len(chain) = 1
          /\ chain[idx].configured => (inflight' = inflight + 1 /\ plPc' = "awaiting")
          /\ ~chain[idx].configured =>
               /\ inflight' = inflight
               /\ plPc' = "dispatch"
               /\ results' = Append(results, NoResult)
    ]_vars

(* With nothing configured the selected provider, deepl, was invoked and   *)
(* returned None without a request.                                        *)
C23_Witness ==
  /\ calls = <<DEEPL>>
  /\ chain = <<[name |-> DEEPL, configured |-> FALSE]>>
  /\ results = <<NoResult>>
  /\ inflight = 0

(* C29: translate_pipeline classifies first: when the verdict for its text *)
(* is ineligible it returns absent in the same step, with no chain built,  *)
(* no provider invoked and the store's settings not read (no record is     *)
(* created for the tenant); a provider is invoked only in a call whose     *)
(* verdict was eligible.                                                   *)
C29_ClassificationFirst ==
  [][/\ (plPc = "idle" /\ plPc' # "idle"
           /\ skip_reason(req'.text, req'.force, env.MAX_INPUT_CHARS,
                          env.IGNORE_NUMERIC_LIKE, env.SKIP_ROMAN_HINDI) # "eligible") =>
          /\ plPc' = "done"
          /\ plResult' = ReturnedNone
          /\ chain' = <<>>
          /\ calls' = <<>>
          /\ inflight' = 0
          /\ UNCHANGED <<defaults, own, ref>>
     /\ calls' # <<>> =>
          skip_reason(req'.text, req'.force, env.MAX_INPUT_CHARS,
                      env.IGNORE_NUMERIC_LIKE, env.SKIP_ROMAN_HINDI) = "eligible"
    ]_vars

(* "12:30" for tenant 1, who has no settings record: the call returned     *)
(* absent and the store still has no record.                               *)
C29_Witness ==
  /\ plPc = "done"
  /\ req.text = <<"1", "2", ":", "3", "0">>
  /\ req.guild_id = 1
  /\ env.IGNORE_NUMERIC_LIKE
  /\ plResult = ReturnedNone
  /\ calls = <<>>
  /\ Data("cfg", "settings") = EmptyDict

(* A step of translate_pipeline, or of the show command. *)
ReadOrTranslateStep ==
  \/ pipeVars' # pipeVars
  \/ (lastCall' # lastCall /\ lastCall'.op = "show")

(* C25: reads and translation write nothing durable: no step of            *)
(* translate_pipeline and no get_settings (the show command) changes the   *)
(* destination or a temporary file, takes the lock or begins a save, while *)
(* get_settings does create the record in memory; the destination changes  *)
(* only in a step of a save(), and a save() begins only in a command that  *)
(* called update_settings.                                                 *)
C25_ReadsWriteNothingDurable ==
  [][/\ ReadOrTranslateStep => UNCHANGED <<file, tmp, lock, pc, lastSaved>>
     /\ file' # file => \E t \in Tasks : InSave(t)
     /\ (\E t \in Tasks : pc[t] = "idle" /\ pc'[t] = "save_wait") =>
          /\ lastCall'.n = nOps'
          /\ lastCall'.op = "set_provider"
          /\ ~lastCall'.rejected
    ]_vars

(* A translation for tenant 1 was returned and tenant 2's settings were    *)
(* shown; both have a record in memory now, and there is still no document. *)
C25_Witness ==
  /\ plPc = "done"
  /\ plResult.kind = "value"
  /\ req.guild_id = 1
  /\ lastCall.op = "show"
  /\ lastCall.guild_id = 2
  /\ {<<"1">>, <<"2">>} \subseteq DOMAIN Data("cfg", "settings")
  /\ file = Absent
  /\ AllIdle

C1_FirstSuccessInOrder ==
  /\ inflight <= 1
  /\ Len(calls) <= Len(chain)
  /\ \A i \in DOMAIN calls : calls[i] = chain[i].name
  /\ \A i \in DOMAIN results : i < Len(results) => ~Success(results[i])
  /\ (\E i \in DOMAIN results : Success(results[i])) => dispatched.kind = "value"
  /\ dispatched.kind = "value" =>
       LET n == Len(results)
       IN  /\ n = Len(calls)
           /\ Success(results[n])
           /\ dispatched = Returned(chain[n].name, results[n].detected,
                                    results[n].translated)
  /\ dispatched.kind = "absent" =>
       /\ Len(calls) = Len(chain)
       /\ Len(results) = Len(chain)
       /\ \A i \in DOMAIN results : ~Success(results[i])
  /\ dispatched.kind # "raised"

(* C2: translate_pipeline never raises: whatever the text, the tenant, the *)
(* settings and the back-ends, a call that ended returned a triple with    *)
(* the detected language upper-cased, or absent.                           *)
C2_PipelineNeverRaises ==
  /\ plResult.kind # "raised"
  /\ plPc = "done" =>
       /\ plResult.kind \in {"absent", "value"}
       /\ plResult.detected = Upper(plResult.detected)

(* C3: a fault inside one provider (the request raises, a status that is   *)
(* not 200, a payload with a missing or null translation, a provider with  *)
(* no credentials) gives no accepted result, leaves translate_via_chain    *)
(* running and makes it go on to the next provider of the chain.           *)
C3_FaultsAreAbsent ==
  [][/\ (plPc = "awaiting" /\ plPc' # "awaiting" /\ IsFault(lastResp')) =>
          /\ ~Success(results'[Len(results')])
          /\ dispatched' = dispatched
          /\ plPc' = "dispatch"
          /\ idx' = idx + 1
     /\ (plPc = "dispatch" /\ Len(calls') > Len(calls) /\ ~chain[idx].configured) =>
          /\ ~results'[Len(results')].present
          /\ plPc' = "dispatch"
          /\ idx' = idx + 1
    ]_vars

SameEntries(doc1, doc2, b) ==
  \A k \in Keys :
    LET d1 == DictGet(doc1, k, EmptyDict)
        d2 == DictGet(doc2, k, EmptyDict)
    IN  /\ _g(b) \in DOMAIN d1 <=> _g(b) \in DOMAIN d2
        /\ (_g(b) \in DOMAIN d1 /\ _g(b) \in DOMAIN d2) => d1[_g(b)] = d2[_g(b)]

(* The step is the call by task t of a store operation keyed by tenant a:  *)
(* its change of self.data, up to `await self.save()`.                     *)
KeyedBy(t, a) ==
  \/ \E c \in ChannelIds : AddChannel(t, a, c) \/ RemoveChannel(t, a, c)
  \/ \E code \in CodeInputs : AddBlacklist(t, a, code) \/ RemoveBlacklist(t, a, code)
  \/ \E kwargs \in KwargsInputs : UpdateSettings(t, a, kwargs)
  \/ ShowSettings(t, a)

(* C32: a store operation keyed by tenant a leaves the channels, the       *)
(* blacklist and the settings of every other tenant as they were in        *)
(* memory, in either instance; the steps of the save it triggers change    *)
(* nothing in memory, and the document that save writes, by the rename or  *)
(* by the fallback, has for every tenant the entries the tenant has in     *)
(* memory.                                                                 *)
C32_TenantIsolation ==
  [][\A t \in Tasks :
       /\ \A a \in Tenants :
            KeyedBy(t, a) =>
              \A b \in Tenants \ {a}, s \in Stores :
                SameEntries(Serialise(s)', Serialise(s), b)
       /\ ((InSave(t) \/ pc[t] = "save_wait") /\ pc'[t] # pc[t]) =>
            UNCHANGED <<defaults, own, ref>>
       /\ (InSave(t) /\ file' # file /\ Readable(file')) =>
            \A b \in Tenants : SameEntries(file'.doc, Serialise(opStore[t]), b)
    ]_vars

(* The store loaded the document of the two tenants, channel 1 of tenant 2 *)
(* was removed and the save has written: tenant 1 has in memory and on     *)
(* disk what it had.                                                       *)
C32_Witness ==
  /\ AllIdle
  /\ nOps = 2
  /\ nFaults = 0
  /\ ref["cfg"]["guilds"] = "own"
  /\ DictGet(Data("cfg", "guilds"), _g(2), <<>>) = << <<"2">> >>
  /\ file = DocFile(Serialise("cfg"))
  /\ \E f \in TenantFiles :
       /\ Readable(f)
       /\ SameEntries(f.doc, file.doc, 1)
       /\ ~SameEntries(f.doc, file.doc, 2)

====
